---- MODULE Spec2Model ----
(***************************************************************************)
(* chimg: the chroot mutation engine (chimg/chroot.py).                    *)
(*                                                                         *)
(* Chroot.apply() enters four scoped guards (mounts, policy-rc.d block,    *)
(* PPA repositories, grub diversions) on one ExitStack, runs the install   *)
(* steps and unwinds the stack.  The model keeps the target filesystem     *)
(* (mount table, policy file, per-repository apt files, diversions, snap   *)
(* seed) and the position of the running apply().  Every external command  *)
(* (run_command) either succeeds or raises.                                *)
(***************************************************************************)
EXTENDS Integers, Sequences, FiniteSets, TLC

VARIABLES
    mounts,       \* targets that are mount points (os.path.ismount)
    policy_rc,    \* usr/sbin/policy-rc.d: "absent", "target" (carried by the target), "chimg" (written by the guard)
    apt_files,    \* existing per-repository files, as <<name, kind>>
    apt_text,     \* the text of each of them
    diverted,     \* paths with a local dpkg diversion
    detect_virt,  \* usr/bin/systemd-detect-virt: "orig", "stub" or "absent"
    seed,         \* var/lib/snapd/seed: [yaml, snaps, asserts, chain]
    tree,         \* other directories and regular files of the target: [dirs, files]
    pc,           \* position of apply()
    idx,          \* loop index of the guard or step at pc
    plan,         \* configuration documents still to be loaded and applied
    conf,         \* the document last loaded: self._ctx.conf of the running apply()
    stack,        \* entered guards, in entry order (the ExitStack callbacks)
    exc,          \* an exception is propagating
    faults,       \* failures the environment may still produce
    pre,          \* the target as the running apply() found it
    dl,           \* the most recent _snap_install call
    runs,         \* completed apply() calls: [conf, ok]
    image,        \* the disk image of ImageCustomizer around the target
    peer,         \* a second apply() on the same target, in another process
    log           \* what the running apply() did, in order

fsvars == <<mounts, policy_rc, apt_files, apt_text, diverted, detect_virt, seed, tree>>
vars == <<mounts, policy_rc, apt_files, apt_text, diverted, detect_virt, seed, tree,
          pc, idx, plan, conf, stack, exc, faults, pre, dl, runs, image, peer, log>>

----------------------------------------------------------------------------
(* Bounds *)

MaxPpas == 2      \* repository declarations per configuration
MaxRuns == 2      \* apply() calls on one target
MaxFaults == 1    \* failures of the environment per behaviour
MaxEnters == 3    \* mount guards entered by the nesting scenario
MaxAdds == 3      \* _snap_add_to_seed_yaml calls of the manifest scenario
MaxChains == 2    \* _snap_assertion_install calls of the trust-chain scenario
MaxSnaps == 2     \* snaps declared by one snap section
MaxModelSnaps == 2  \* snaps named by the model assertion of a seed system

----------------------------------------------------------------------------
(* Chroot._mount: the mounts_fs table, targets in mount order *)

mounts_fs ==
    << "/dev", "/dev/pts", "/proc", "/sys", "/sys/kernel/security",
       "/sys/fs/cgroup", "/tmp", "/var/lib/apt/lists", "/var/cache/apt" >>

NMounts == Len(mounts_fs)

\* target of the bind mount of Chroot._snap_preseed
aa_target == "/sys/kernel/security/apparmor/features/"

\* the four per-repository files of Chroot._ppa_setup
PpaKinds == {"sources", "key", "auth", "pin"}

\* the two diversions of Chroot._grub_divert
os_prober == "/etc/grub.d/30_os-prober"
systemd_detect_virt == "/usr/bin/systemd-detect-virt"

\* the run phase of Chroot.apply, in source order
RunSteps ==
    << "cmds_pre", "kernel", "debs", "files", "assertion", "snaps",
       "preseed", "cmds_post" >>

----------------------------------------------------------------------------
(* Helpers *)

SeqsUpTo(S, n) == UNION {[1..k -> S] : k \in 0..n}

Range(s) == {s[i] : i \in 1..Len(s)}

Ev(e, o, i) == [ev |-> e, obj |-> o, i |-> i]

IndexOf(s, x) == CHOOSE i \in 1..Len(s) : s[i] = x

RECURSIVE Flatten(_)
Flatten(ss) == IF ss = <<>> THEN <<>> ELSE Head(ss) \o Flatten(Tail(ss))

----------------------------------------------------------------------------
(* Configurations (chimg/config.py) *)

\* an Optional field that is not set (Python None, YAML null)
None == "<None>"

\* Python truthiness of an Optional[str] value
Truthy(v) == v \notin {None, ""}

PpaNames == {"a", "b"}

\* ConfigPPA: name, keep, the credentials, the raw auth.conf.d lines, and
\* whether a fingerprint and a pin (name and priority) are declared
PpaDecls ==
    [name : PpaNames, keep : BOOLEAN, fingerprint : BOOLEAN,
     username : {None, "bearer"}, password : {None, "secret"},
     auth_lines : {<<>>, <<"machine esm login a password b", "machine ppa login c password d">>},
     pin : BOOLEAN]

NoSnap == [present |-> FALSE, aa |-> FALSE, snaps |-> <<>>]

\* ConfigDebPackage: hold is "True", "False" or None
Deb(n, h) == [name |-> n, hold |-> h]

\* ConfigFile; a destination is a path, an absolute one starts with "/"
FileDecl(dst, content, source, owner) ==
    [destination |-> dst, content |-> content, source |-> source, owner |-> owner]

check_content_or_source_not_both(f) == ~(f.content # None /\ f.source # None)

\* ConfigFile.check_content_or_source: does the declaration pass
check_content_or_source(f) ==
    /\ ~(f.content # None /\ f.source # None)
    /\ ~(f.content = None /\ f.source = None)

\* ConfigFile.check_content_or_source: the declaration it returns
ConfigFile(f) ==
    [f EXCEPT !.destination = IF @ # <<>> /\ Head(@) = "/" THEN Tail(@) ELSE @]

\* Config(**y): does the document validate, and the configuration it gives
ConfigValid(y) == \A j \in 1..Len(y.files) : check_content_or_source(y.files[j])

Config(y) == [y EXCEPT !.files = [j \in 1..Len(y.files) |-> ConfigFile(y.files[j])]]

\* Config with every optional section at its default
EmptyConf ==
    [ppas |-> <<>>, kernel |-> FALSE, fs |-> None, debs |-> <<>>, files |-> <<>>,
     snap |-> NoSnap, cmds_pre |-> 0, cmds_post |-> 0]

----------------------------------------------------------------------------
(* Scoped guards: what setup and teardown do to the target *)

MountDone_always(m, t) == TRUE

\* _mount_fs / _mount_bind setup: mount unless the target is a mount point
MountDone(m, t) == t \notin m

MountSetup(m, t) == [mounts |-> m \cup {t}, mount_done |-> MountDone(m, t)]

\* _mount_fs / _mount_bind teardown (finally): umount if this entry mounted
MountTeardown(m, t, mount_done) == IF mount_done THEN m \ {t} ELSE m

PolicyWritten_always(p) == TRUE

\* _policy_rc_runlevel_ops setup: write the file unless one exists
PolicyWritten(p) == p = "absent"

PolicySetup_never(p) == [file |-> p, written |-> FALSE]

PolicySetup(p) ==
    [file |-> IF PolicyWritten(p) THEN "chimg" ELSE p,
     written |-> PolicyWritten(p)]

\* _policy_rc_runlevel_ops after the yield: remove the file if written
PolicyTeardown(p, written) == IF written THEN "absent" ELSE p

\* _ppa_setup: "if repo_username and repo_password", "if repo_auth_lines"
LoginGiven(d) == Truthy(d.username) /\ Truthy(d.password)

AuthLinesGiven(d) == d.auth_lines # <<>>

\* _ppa_setup: the per-repository files the setup writes
PpaWrites(d) ==
    {<<d.name, "sources">>}
      \cup (IF d.fingerprint THEN {<<d.name, "key">>} ELSE {})
      \cup (IF LoginGiven(d) \/ AuthLinesGiven(d) THEN {<<d.name, "auth">>} ELSE {})
      \cup (IF d.pin THEN {<<d.name, "pin">>} ELSE {})

\* "\n".join(lines)
RECURSIVE JoinLines(_)
JoinLines(lines) ==
    IF lines = <<>> THEN ""
    ELSE IF Len(lines) = 1 THEN lines[1]
    ELSE lines[1] \o "\n" \o JoinLines(Tail(lines))

\* open(path, "w").write(data) and open(path, "a+").write(data) on the
\* per-repository files
OpenW(text, f, data) == [g \in DOMAIN text \cup {f} |-> IF g = f THEN data ELSE text[g]]

OpenA(text, f, data) ==
    [g \in DOMAIN text \cup {f} |->
       IF g # f THEN text[g]
       ELSE IF f \in DOMAIN text THEN text[f] \o data ELSE data]

Unlink(text, fs) == [g \in DOMAIN text \ fs |-> text[g]]

\* _ppa_setup: the deb822 sources file
SourcesText(d) ==
    JoinLines(<<"X-Repolib-Name: " \o d.name, "Enabled: yes", "Types: deb", "URIs: uri",
                "Suites: noble", "Components: main universe">>
                \o (IF d.fingerprint
                    THEN <<"Signed-By: /etc/apt/trusted.gpg.d/" \o d.name \o ".gpg">>
                    ELSE <<>>))

\* _write_key: gpg --yes --dearmor --output of the key of the fingerprint
KeyText(d) == "dearmored key"

LoginText(d) == "machine uri login " \o d.username \o " password " \o d.password

PinText(d) == "Package: *\nPin: release o=pin\nPin-Priority: 1001\n"

\* _ppa_setup up to the index refresh: the texts of the files afterwards
ppa_setup(text, d) ==
    LET keyed == IF d.fingerprint THEN OpenW(text, <<d.name, "key">>, KeyText(d)) ELSE text
        sourced == OpenW(keyed, <<d.name, "sources">>, SourcesText(d))
        login == IF LoginGiven(d) THEN OpenW(sourced, <<d.name, "auth">>, LoginText(d))
                 ELSE sourced
        lines == IF AuthLinesGiven(d)
                 THEN OpenA(login, <<d.name, "auth">>, JoinLines(d.auth_lines))
                 ELSE login
    IN  IF d.pin THEN OpenW(lines, <<d.name, "pin">>, PinText(d)) ELSE lines

PpaRemoves_sources_only(d) == IF d.keep THEN {} ELSE {<<d.name, "sources">>}

\* _ppa_setup after the yield: the files removed unless keep is set
PpaRemoves(d) == IF d.keep THEN {} ELSE {<<d.name, k>> : k \in PpaKinds}

RefreshAtTeardown_always(d) == TRUE

\* _ppa_setup after the yield: _apt_update runs inside "if not keep"
RefreshAtTeardown(d) == ~d.keep

TeardownRuns_no_finally(kind, e) == ~e

\* The code after a guard's yield runs on an exception only where the
\* generator has a try/finally: _mount_fs and _mount_bind have one,
\* _policy_rc_runlevel_ops, _ppa_setup and _grub_divert have none.
TeardownRuns(kind, e) == kind = "mount" \/ ~e

StackTop_fifo(s) == 1

\* ExitStack.__exit__: the callback that runs next is the last one pushed
StackTop(s) == Len(s)

NextPc_files_before_debs(s) ==
    CASE s = "kernel" -> "files"
      [] s = "files" -> "debs"
      [] s = "debs" -> "assertion"
      [] s = RunSteps[Len(RunSteps)] -> "teardown"
      [] OTHER -> RunSteps[IndexOf(RunSteps, s) + 1]

\* Chroot.apply: the step that follows run-phase step s
NextPc(s) ==
    IF s = RunSteps[Len(RunSteps)] THEN "teardown"
    ELSE RunSteps[IndexOf(RunSteps, s) + 1]

----------------------------------------------------------------------------
(* Transitions shared by the actions *)

Guard(k, i, a) == [kind |-> k, i |-> i, acted |-> a]

\* apply() moves on; cost is what the move takes of the failures left
Move(p, i, e, evs, cost) ==
    /\ faults >= cost
    /\ faults' = faults - cost
    /\ pc' = p
    /\ idx' = i
    /\ exc' = e
    /\ log' = log \o evs

Goto(p, i, evs) == Move(p, i, exc, evs, 0)

\* an exception leaves the with-body: the ExitStack starts to unwind
Raise(evs) == Move("teardown", 0, TRUE, evs, 0)

\* the same, for a failure of the environment (a command exits non-zero)
Throw(evs) == Move("teardown", 0, TRUE, evs, 1)

\* a run-phase step that runs the commands evs in order; any may fail
StepEvs(step, evs) ==
    \/ /\ Goto(NextPc(step), 1, <<Ev("step", step, 0)>> \o evs)
       /\ UNCHANGED stack
    \/ \E k \in 1..Len(evs) :
         /\ Throw(<<Ev("step", step, 0)>> \o SubSeq(evs, 1, k - 1) \o <<Ev("raise", step, k)>>)
         /\ UNCHANGED stack

----------------------------------------------------------------------------
(* Chroot.apply: entering the guard stack *)

\* Context.__init__: the next configuration document is loaded; a document
\* that does not validate raises there and no Chroot is made for it
ContextLoad ==
    /\ pc \in {"idle", "done", "failed", "rejected"}
    /\ plan # <<>>
    /\ plan' = Tail(plan)
    /\ IF ConfigValid(Head(plan))
       THEN conf' = Config(Head(plan)) /\ pc' = "loaded"
       ELSE conf' = Head(plan) /\ pc' = "rejected"
    /\ log' = <<>>
    /\ UNCHANGED <<fsvars, idx, stack, exc, faults, pre, dl, runs, image, peer>>

ApplyStart ==
    /\ pc = "loaded"
    /\ UNCHANGED <<plan, conf>>
    /\ pc' = "mount"
    /\ idx' = 1
    /\ stack' = <<>>
    /\ exc' = FALSE
    /\ log' = <<>>
    /\ pre' = [mounts |-> mounts, policy_rc |-> policy_rc, apt_files |-> apt_files,
               apt_text |-> apt_text, seed |-> seed, tree |-> tree]
    /\ UNCHANGED <<fsvars, faults, dl, runs, image, peer>>

\* _mount: enter _mount_fs for the idx-th row of mounts_fs
MountFsEnter ==
    /\ pc = "mount"
    /\ LET t == mounts_fs[idx]
           r == MountSetup(mounts, t)
           nxt == IF idx = NMounts THEN "policy" ELSE "mount"
       IN  \/ /\ mounts' = r.mounts
              /\ stack' = Append(stack, Guard("mount", idx, r.mount_done))
              /\ Goto(nxt, IF idx = NMounts THEN 0 ELSE idx + 1,
                      (IF r.mount_done THEN <<Ev("cmd", "mount", idx)>> ELSE <<>>)
                        \o <<Ev("enter", "mount", idx)>>)
           \/ /\ r.mount_done
              /\ Throw(<<Ev("raise", "mount", idx)>>)
              /\ UNCHANGED <<mounts, stack>>
    /\ UNCHANGED <<tree, policy_rc, apt_files, apt_text, diverted, detect_virt, seed,
                   plan, conf, pre, dl, runs, image, peer>>

PolicyEnter ==
    /\ pc = "policy"
    /\ LET r == PolicySetup(policy_rc)
       IN  /\ policy_rc' = r.file
           /\ stack' = Append(stack, Guard("policy", 0, r.written))
           /\ Goto("ppas", 1, <<Ev("enter", "policy", 0)>>)
    /\ UNCHANGED <<tree, mounts, apt_files, apt_text, diverted, detect_virt, seed,
                   plan, conf, pre, dl, runs, image, peer>>

\* _ppas_setup without repositories: one _apt_update
PpasNone ==
    /\ pc = "ppas"
    /\ Len(conf.ppas) = 0
    /\ \/ Goto("grub", 0, <<Ev("cmd", "apt_update", 0), Ev("enter", "ppas", 0)>>)
       \/ Throw(<<Ev("raise", "ppas", 0)>>)
    /\ UNCHANGED <<fsvars, stack, plan, conf, pre, dl, runs, image, peer>>

\* _ppas_setup: enter _ppa_setup for the idx-th declaration
PpaEnter ==
    /\ pc = "ppas"
    /\ idx \in 1..Len(conf.ppas)
    /\ LET d == conf.ppas[idx]
           nxt == IF idx = Len(conf.ppas) THEN "ppas_policy" ELSE "ppas"
       IN  \/ \* files written, index refreshed
              /\ apt_files' = apt_files \cup PpaWrites(d)
              /\ apt_text' = ppa_setup(apt_text, d)
              /\ stack' = Append(stack, Guard("ppa", idx, TRUE))
              /\ Goto(nxt, IF idx = Len(conf.ppas) THEN 0 ELSE idx + 1,
                      <<Ev("cmd", "apt_update", idx), Ev("enter", "ppa", idx)>>)
           \/ \* _write_key raises (keyserver, gpg) before anything is written
              /\ d.fingerprint
              /\ Throw(<<Ev("raise", "ppa", idx)>>)
              /\ UNCHANGED <<apt_files, apt_text, stack>>
           \/ \* _apt_update raises after the files are written
              /\ apt_files' = apt_files \cup PpaWrites(d)
              /\ apt_text' = ppa_setup(apt_text, d)
              /\ Throw(<<Ev("raise", "ppa", idx)>>)
              /\ UNCHANGED stack
    /\ UNCHANGED <<tree, mounts, policy_rc, diverted, detect_virt, seed,
                   plan, conf, pre, dl, runs, image, peer>>

\* _ppas_setup: apt-cache policy once every repository is set up
PpasPolicy ==
    /\ pc = "ppas_policy"
    /\ \/ Goto("grub", 0, <<Ev("cmd", "apt_cache_policy", 0), Ev("enter", "ppas", 0)>>)
       \/ Throw(<<Ev("raise", "ppas", 0)>>)
    /\ UNCHANGED <<fsvars, stack, plan, conf, pre, dl, runs, image, peer>>

GrubDivertEnter ==
    /\ pc = "grub"
    /\ \/ /\ diverted' = diverted \cup {os_prober, systemd_detect_virt}
          /\ detect_virt' = "stub"
          /\ stack' = Append(stack, Guard("grub", 0, TRUE))
          /\ Goto(RunSteps[1], 1, <<Ev("enter", "grub", 0)>>)
       \/ \* the first dpkg-divert fails
          /\ Throw(<<Ev("raise", "grub", 1)>>)
          /\ UNCHANGED <<diverted, detect_virt, stack>>
       \/ \* the second dpkg-divert fails
          /\ diverted' = diverted \cup {os_prober}
          /\ Throw(<<Ev("raise", "grub", 2)>>)
          /\ UNCHANGED <<detect_virt, stack>>
    /\ UNCHANGED <<tree, mounts, policy_rc, apt_files, apt_text, seed, plan, conf, pre, dl, runs, image, peer>>

----------------------------------------------------------------------------
(* The snap seed: var/lib/snapd/seed *)

Revs == {"1", "2"}

Channels == {"stable", "edge"}

\* snap names, spelled so that a glob "<name>*.snap" can be matched
Spell ==
    [n \in {"hello", "chimg", "oldapp", "nobase", "core22", "core", "snapd"} |->
       CASE n = "core22" -> <<"core", "22">>
         [] OTHER -> <<n>>]

SnapNames == DOMAIN Spell

\* what "snap info --verbose" reports for a snap of that name ("" = no key)
SnapMeta ==
    [n \in SnapNames |->
       CASE n = "hello" -> [type |-> "app", base |-> "core22"]
         [] n = "chimg" -> [type |-> "app", base |-> "core22"]
         [] n = "oldapp" -> [type |-> "app", base |-> "core"]
         [] n = "nobase" -> [type |-> "app", base |-> ""]
         [] n = "core22" -> [type |-> "base", base |-> ""]
         [] n = "core" -> [type |-> "os", base |-> ""]
         [] n = "snapd" -> [type |-> "snapd", base |-> ""]]

\* a downloaded artifact <name>_<rev>.snap or <name>_<rev>.assert
File(n, r) == [name |-> n, rev |-> r]

IsPrefix(a, b) == Len(a) <= Len(b) /\ SubSeq(b, 1, Len(a)) = a

\* glob.glob(f"{dir}/{name}*.snap")
Glob(files, n) == {f \in files : IsPrefix(Spell[n], Spell[f.name])}

Line_no_dash(dash, k, v) == [dash |-> FALSE, k |-> k, v |-> v]

\* one line of seed.yaml: "- key: value" or "  key: value"
Line(dash, k, v) == [dash |-> dash, k |-> k, v |-> v]

\* yaml.dump({"snaps": l}): block style, the keys of an entry sorted
yaml_dump(l) ==
    IF l = <<>> THEN <<Line(FALSE, "snaps", <<"[]">>)>>
    ELSE <<Line(FALSE, "snaps", <<>>)>>
           \o Flatten([j \in 1..Len(l) |->
                <<Line(TRUE, "channel", <<l[j].channel>>),
                  Line(FALSE, "classic", <<IF l[j].classic THEN "true" ELSE "false">>),
                  Line(FALSE, "file", <<l[j].file.name, "_", l[j].file.rev, ".snap">>),
                  Line(FALSE, "name", <<l[j].name>>)>>])

\* yaml.safe_load(text)["snaps"]
yaml_load(text) ==
    IF text[1].v = <<"[]">> THEN <<>>
    ELSE LET body == Tail(text)
             starts == {i \in 1..Len(body) : body[i].dash}
             nth(j) == CHOOSE i \in starts : Cardinality({k \in starts : k < i}) = j - 1
             last(j) == IF j = Cardinality(starts) THEN Len(body) ELSE nth(j + 1) - 1
             val(j, key) == body[CHOOSE i \in nth(j)..last(j) : body[i].k = key].v
         IN  [j \in 1..Cardinality(starts) |->
                [name |-> val(j, "name")[1],
                 channel |-> val(j, "channel")[1],
                 file |-> File(val(j, "file")[1], val(j, "file")[3]),
                 classic |-> val(j, "classic") = <<"true">>]]

NoYaml == [exists |-> FALSE, text |-> <<>>]

AlreadyListed_never(snaps_yaml, name) == FALSE

\* _snap_add_to_seed_yaml: is the name already listed
AlreadyListed(snaps_yaml, name) == name \in {snaps_yaml[j].name : j \in 1..Len(snaps_yaml)}

\* _snap_add_to_seed_yaml: seed.yaml after the call
snap_add_to_seed_yaml(y, name, channel, snap_file, classic) ==
    LET y0 == IF y.exists THEN y ELSE [exists |-> TRUE, text |-> yaml_dump(<<>>)]
        snaps_yaml == yaml_load(y0.text)
    IN  IF AlreadyListed(snaps_yaml, name) THEN y0
        ELSE [exists |-> TRUE,
              text |-> yaml_dump(Append(snaps_yaml,
                         [name |-> name, channel |-> channel,
                          file |-> snap_file, classic |-> classic]))]

\* what "snap download" can leave in the scratch directory
Scratches(n) ==
    [asserts : SUBSET {File(n, r) : r \in Revs},
     snaps : SUBSET {File(n, r) : r \in Revs}]

\* what it leaves when the store behaves: the snap and its assertion
Regular(n, scratch) ==
    \E r \in Revs : scratch = [asserts |-> {File(n, r)}, snaps |-> {File(n, r)}]

FailPoints == {"none", "download", "mv_assert", "mv_snap"}

\* _snap_install: does the scratch directory pass the check on its content
ScratchAccepted(scratch) == Cardinality(scratch.asserts) = 1

\* _snap_install: [ok, seed] after the call; pick is glob(...)[0] of the
\* .snap files, fail the command that exits non-zero
snap_install(sd, name, channel, classic, scratch, pick, fail) ==
    LET sd1 == [sd EXCEPT !.asserts = @ \cup scratch.asserts]
        sd2 == [sd1 EXCEPT !.snaps = @ \cup {pick}]
        sd3 == [sd2 EXCEPT !.yaml = snap_add_to_seed_yaml(@, name, channel, pick, classic)]
    IN  IF fail = "download" THEN [ok |-> FALSE, why |-> "cmd", seed |-> sd]
        ELSE IF ~ScratchAccepted(scratch) THEN [ok |-> FALSE, why |-> "RuntimeError", seed |-> sd]
        ELSE IF fail = "mv_assert" THEN [ok |-> FALSE, why |-> "cmd", seed |-> sd]
        ELSE IF scratch.snaps = {} THEN [ok |-> FALSE, why |-> "IndexError", seed |-> sd1]
        ELSE IF fail = "mv_snap" THEN [ok |-> FALSE, why |-> "cmd", seed |-> sd1]
        ELSE [ok |-> TRUE, why |-> "", seed |-> sd3]

\* the choices of one _snap_install call
Picks(scratch) == IF scratch.snaps = {} THEN {File("", "")} ELSE scratch.snaps

DlRecord(name, channel, classic, scratch, pick, before, ok) ==
    [name |-> name, channel |-> channel, classic |-> classic, file |-> pick,
     n_asserts |-> Cardinality(scratch.asserts),
     n_snaps |-> Cardinality(scratch.snaps), before |-> before, ok |-> ok]

\* a target with its root directory only
EmptyTree == [dirs |-> {<<>>}, files |-> {}]

EmptySeed == [yaml |-> NoYaml, snaps |-> {}, asserts |-> {}, chain |-> {}]

NoDl == DlRecord("", "", FALSE, [asserts |-> {}, snaps |-> {}], File("", ""), EmptySeed, FALSE)

----------------------------------------------------------------------------
(* Chroot.apply: the run phase *)

common == <<plan, conf, pre, runs, image, peer>>

Prefixes(path) == {SubSeq(path, 1, k) : k \in 0..Len(path)}

Dirname(path) == SubSeq(path, 1, Len(path) - 1)

FilePaths(t) == {g.path : g \in t.files}

\* os.makedirs(path, exist_ok=True); fails when a file is in the way
makedirs(t, path) ==
    IF Prefixes(path) \cap FilePaths(t) # {} THEN [ok |-> FALSE, tree |-> t]
    ELSE [ok |-> TRUE, tree |-> [t EXCEPT !.dirs = @ \cup Prefixes(path)]]

\* open(path, "w").write(data): create or truncate; fails on a directory
\* and under a directory that does not exist
write_file(t, path, data) ==
    IF path \in t.dirs \/ Dirname(path) \notin t.dirs THEN [ok |-> FALSE, tree |-> t]
    ELSE [ok |-> TRUE,
          tree |-> [t EXCEPT !.files = {g \in @ : g.path # path}
                                         \cup {[path |-> path, data |-> data, owner |-> None]}]]

\* os.remove(path): fails when there is no such file
remove_file(t, path) ==
    IF path \notin FilePaths(t) THEN [ok |-> FALSE, tree |-> t]
    ELSE [ok |-> TRUE, tree |-> [t EXCEPT !.files = {g \in @ : g.path # path}]]

\* names tempfile.NamedTemporaryFile(prefix="chimg_", dir=<target>) can pick
ScriptNames == {"chimg_a1b2", "chimg_c3d4"}

\* what can happen in one _cmd_run: all goes well; the temporary file cannot
\* be created; writing it fails; the command exits with a code that is not
\* accepted; the command removes its own script
CmdOutcomes == {"ok", "mkstemp", "write", "nonzero", "self_removed"}

finally_remove_skipped(t, fname) == [ok |-> TRUE, tree |-> t]

\* _cmd_run, finally: "if fname: os.remove(fname)"
finally_remove(t, fname) == remove_file(t, <<fname>>)

\* _cmd_run of the j-th command of a step: the target afterwards, what
\* happened, and whether the call returned
cmd_run(t, step, fname, out, j) ==
    IF out = "mkstemp"
    THEN [tree |-> t, evs |-> <<Ev("raise", step, j)>>, ok |-> FALSE]
    ELSE LET created == write_file(t, <<fname>>, IF out = "write" THEN "" ELSE "cmd").tree
             executed == out # "write"
             left == IF out = "self_removed" THEN remove_file(created, <<fname>>).tree
                     ELSE created
             removed == finally_remove(left, fname)
             ok == out = "ok" /\ removed.ok
         IN  [tree |-> removed.tree,
              evs |-> <<Ev("script", fname, j)>>
                        \o (IF executed THEN <<Ev("exec", step, j)>> ELSE <<>>)
                        \o (IF ok THEN <<Ev("cmd", "cmd_run", j)>> ELSE <<Ev("raise", step, j)>>),
              ok |-> ok]

\* _cmds_pre / _cmds_post: the commands from the j-th on, until one raises
RECURSIVE cmds_run(_, _, _, _, _)
cmds_run(t, step, fnames, outs, j) ==
    IF j > Len(fnames) THEN [tree |-> t, evs |-> <<>>, ok |-> TRUE]
    ELSE LET r == cmd_run(t, step, fnames[j], outs[j], j)
             rest == cmds_run(r.tree, step, fnames, outs, j + 1)
         IN  IF ~r.ok THEN r
             ELSE [tree |-> rest.tree, evs |-> r.evs \o rest.evs, ok |-> rest.ok]

\* the names are fresh: no file of that name is in the target root
RECURSIVE FreshNames(_, _, _, _, _)
FreshNames(t, step, fnames, outs, j) ==
    IF j > Len(fnames) THEN TRUE
    ELSE /\ <<fnames[j]>> \notin FilePaths(t)
         /\ LET r == cmd_run(t, step, fnames[j], outs[j], j)
            IN  IF r.ok THEN FreshNames(r.tree, step, fnames, outs, j + 1) ELSE TRUE

CmdsRun(step, n) ==
    \E fnames \in [1..n -> ScriptNames], outs \in [1..n -> CmdOutcomes] :
      LET r == cmds_run(tree, step, fnames, outs, 1)
      IN  /\ FreshNames(tree, step, fnames, outs, 1)
          /\ tree' = r.tree
          /\ Move(IF r.ok THEN NextPc(step) ELSE "teardown", IF r.ok THEN 1 ELSE 0,
                  IF r.ok THEN exc ELSE TRUE, <<Ev("step", step, 0)>> \o r.evs,
                  IF r.ok THEN 0 ELSE 1)

CmdsPre ==
    /\ pc = "cmds_pre"
    /\ CmdsRun("cmds_pre", conf.cmds_pre)
    /\ UNCHANGED <<mounts, policy_rc, apt_files, apt_text, diverted, detect_virt, seed,
                   stack, dl, common>>

\* etc/default/grub.d/40-force-partuuid.cfg and boot/grub/grub.cfg
force_partuuid_cfg == <<"etc", "default", "grub.d", "40-force-partuuid.cfg">>

grub_cfg == <<"boot", "grub", "grub.cfg">>

\* what "blkid -s PARTUUID -o value" prints, stripped
Partuuids == {"", "0a1b"}

ForcePartuuidText(partuuid) ==
    "\n# Force boot without an initramfs by setting GRUB_FORCE_PARTUUID\n"
      \o "# Remove this line to enable boot with an initramfs\n"
      \o "GRUB_FORCE_PARTUUID=" \o partuuid

\* the grub.cfg of a target: kernel lines that name the root by PARTUUID or
\* by UUID, or a file without a kernel line
GrubCfgTexts ==
    {"linux /vmlinuz root=PARTUUID=0a1b ro", "linux /vmlinuz root=UUID=2c3d ro",
     "set default=0"}

RootByLabel(fs_label) == "linux /vmlinuz root=LABEL=" \o fs_label \o " ro"

\* sed -i -e "s,root=[^ ]*,root=LABEL=<label>," on the texts above
sed_root_label(data, fs_label) ==
    CASE data = "linux /vmlinuz root=PARTUUID=0a1b ro" -> RootByLabel(fs_label)
      [] data = "linux /vmlinuz root=UUID=2c3d ro" -> RootByLabel(fs_label)
      [] OTHER -> data

DataOf(t, path) == (CHOOSE g \in t.files : g.path = path).data

\* update-grub in the target: boot/grub/grub.cfg is generated anew; the
\* root is named by PARTUUID when a fragment on disk sets GRUB_FORCE_PARTUUID
update_grub(t) ==
    IF Dirname(grub_cfg) \notin t.dirs THEN [ok |-> FALSE, tree |-> t]
    ELSE write_file(t, grub_cfg,
                    IF force_partuuid_cfg \in FilePaths(t) /\ DataOf(t, force_partuuid_cfg) # ""
                    THEN "linux /vmlinuz root=PARTUUID=0a1b ro"
                    ELSE "linux /vmlinuz root=UUID=2c3d ro")

\* one command of a step: the target when it succeeds and when it exits
\* non-zero, and whether the target as it is makes it fail
Stage(cmd, ok_tree, ko_tree, fails) ==
    [cmd |-> cmd, ok_tree |-> ok_tree, ko_tree |-> ko_tree, fails |-> fails]

kernel_boot_without_initramfs_always(t, partuuid) ==
    LET made == makedirs(t, Dirname(force_partuuid_cfg))
        opened == write_file(made.tree, force_partuuid_cfg, "")
        updated == update_grub(opened.tree)
        closed(u) == write_file(u, force_partuuid_cfg, ForcePartuuidText(partuuid)).tree
    IN  <<Stage("mkdir_grub_d", made.tree, t, ~made.ok),
          Stage("update_grub", closed(updated.tree), closed(opened.tree), ~updated.ok)>>

\* _kernel_boot_without_initramfs after blkid: the fragment is opened,
\* update-grub runs before the with block closes the file and its text
\* reaches the disk
kernel_boot_without_initramfs(t, partuuid) ==
    IF partuuid = "" THEN <<>>
    ELSE LET made == makedirs(t, Dirname(force_partuuid_cfg))
             opened == write_file(made.tree, force_partuuid_cfg, "")
             updated == update_grub(opened.tree)
             closed(u) == write_file(u, force_partuuid_cfg, ForcePartuuidText(partuuid)).tree
         IN  <<Stage("mkdir_grub_d", made.tree, t, ~made.ok),
               Stage("update_grub", closed(updated.tree), closed(opened.tree), ~updated.ok)>>

RewriteWanted_unless_written(t, c, partuuid) ==
    /\ partuuid = ""
    /\ Truthy(c.fs)
    /\ grub_cfg \in FilePaths(t)

\* _grub_replace_root_with_label: does sed run on grub.cfg
RewriteWanted(t, c, partuuid) ==
    /\ force_partuuid_cfg \notin FilePaths(t)
    /\ Truthy(c.fs)
    /\ grub_cfg \in FilePaths(t)

grub_replace_root_with_label(t, c, partuuid) ==
    IF ~RewriteWanted(t, c, partuuid) THEN <<>>
    ELSE <<Stage("sed_root_label",
                 write_file(t, grub_cfg, sed_root_label(DataOf(t, grub_cfg), c.fs)).tree,
                 t, FALSE)>>

\* _kernel_install: the commands in order, for what blkid prints
kernel_install(t, c, partuuid) ==
    LET apt == [j \in 1..5 |->
                  Stage(<<"apt_purge_kernel", "apt_update", "apt_install_kernel",
                          "findmnt", "blkid">>[j], t, t, FALSE)]
        boot == kernel_boot_without_initramfs(t, partuuid)
        t2 == IF boot = <<>> THEN t ELSE boot[Len(boot)].ok_tree
    IN  apt \o boot \o grub_replace_root_with_label(t2, c, partuuid)

StageEvs(stages, k) == [j \in 1..k |-> Ev("cmd", stages[j].cmd, j)]

\* the commands of _kernel_install that ran, with what blkid printed
KernelEvs(stages, k, partuuid) ==
    IF k < 5 THEN StageEvs(stages, k)
    ELSE StageEvs(stages, 5) \o <<Ev("stdout", partuuid, 5)>>
           \o SubSeq(StageEvs(stages, k), 6, k)

KernelInstall ==
    /\ pc = "kernel"
    /\ IF ~conf.kernel
       THEN Goto(NextPc("kernel"), 1, <<Ev("step", "kernel", 0)>>) /\ UNCHANGED tree
       ELSE \E partuuid \in Partuuids :
              LET stages == kernel_install(tree, conf, partuuid)
                  n == Len(stages)
                  ok(k) == \A j \in 1..k : ~stages[j].fails
              IN  \/ /\ ok(n)
                     /\ tree' = stages[n].ok_tree
                     /\ Goto(NextPc("kernel"), 1,
                             <<Ev("step", "kernel", 0)>> \o KernelEvs(stages, n, partuuid))
                  \/ \E k \in 1..n :
                       /\ ok(k - 1)
                       /\ k > 5 \/ partuuid = ""
                       /\ tree' = stages[k].ko_tree
                       /\ Move("teardown", 0, TRUE,
                               <<Ev("step", "kernel", 0)>> \o KernelEvs(stages, k - 1, partuuid)
                                 \o <<Ev("raise", "kernel", k)>>,
                               IF stages[k].fails THEN 0 ELSE 1)
    /\ UNCHANGED <<mounts, policy_rc, apt_files, apt_text, diverted, detect_virt, seed,
                   stack, dl, common>>

HoldWanted_always(deb) == TRUE

\* _deb_install: deb.get("hold", False)
HoldWanted(deb) == deb.hold \notin {None, "False"}

\* _deb_install of the j-th package: apt-get install, then apt-mark hold
deb_install(deb, j) ==
    <<Ev("cmd", "apt_install", j)>>
      \o (IF HoldWanted(deb) THEN <<Ev("cmd", "apt_mark_hold", j)>> ELSE <<>>)

\* _debs_install: the packages in configuration order
DebsInstall ==
    /\ pc = "debs"
    /\ StepEvs("debs", Flatten([j \in 1..Len(conf.debs) |-> deb_install(conf.debs[j], j)]))
    /\ UNCHANGED <<fsvars, dl, common>>

\* the local files and directories a source can name, and what they hold
SourceKind == [srcfile |-> "file", srcdir |-> "dir"]

SourceData == "source bytes"

\* os.chown(path, int(owner), -1): int() raises on a name that is no number
chown(t, path, owner) ==
    IF owner = None THEN [ok |-> TRUE, tree |-> t]
    ELSE IF owner \notin {"0", "1000"} THEN [ok |-> FALSE, tree |-> t]
    ELSE [ok |-> TRUE,
          tree |-> [t EXCEPT !.files = {IF g.path = path THEN [g EXCEPT !.owner = owner] ELSE g : g \in @}]]

\* _file_install_from_content
file_install_from_content(t, f) ==
    LET f_path == f.destination
        made == makedirs(t, Dirname(f_path))
        written == write_file(made.tree, f_path, f.content)
    IN  IF ~made.ok THEN made
        ELSE IF ~Truthy(f.content) THEN [ok |-> FALSE, tree |-> made.tree]
        ELSE IF ~written.ok THEN written
        ELSE chown(written.tree, f_path, f.owner)

\* _file_install_from_path
file_install_from_path(t, f) ==
    LET dst == f.destination
        made == makedirs(t, dst)
        into == IF dst \in t.dirs THEN Append(dst, f.source) ELSE dst
        copied == IF SourceKind[f.source] = "dir"
                  THEN IF ~made.ok THEN made
                       ELSE write_file(made.tree, Append(dst, "srcfile"), SourceData)
                  ELSE write_file(t, into, SourceData)
    IN  IF ~Truthy(f.source) THEN [ok |-> FALSE, tree |-> t]
        ELSE IF ~copied.ok THEN copied
        ELSE chown(copied.tree, dst, f.owner)

ContentWanted_if_set(f) == f.content # None

\* _files_install: f.get("content") chooses the installer
ContentWanted(f) == Truthy(f.content)

\* _files_install of one declaration (the installer validates it again)
file_install(t, f) ==
    IF ContentWanted(f) THEN file_install_from_content(t, ConfigFile(f))
    ELSE file_install_from_path(t, ConfigFile(f))

\* _files_install: the declarations in order, up to the first that raises
RECURSIVE files_install(_, _, _)
files_install(t, files, j) ==
    IF j > Len(files) THEN [ok |-> TRUE, tree |-> t, evs |-> <<>>]
    ELSE LET r == file_install(t, files[j])
             rest == files_install(r.tree, files, j + 1)
         IN  IF ~r.ok THEN [ok |-> FALSE, tree |-> r.tree, evs |-> <<Ev("raise", "files", j)>>]
             ELSE [rest EXCEPT !.evs = <<Ev("file", "installed", j)>> \o @]

FilesInstall ==
    /\ pc = "files"
    /\ LET r == files_install(tree, conf.files, 1)
       IN  /\ tree' = r.tree
           /\ IF r.ok THEN Goto(NextPc("files"), 1, <<Ev("step", "files", 0)>> \o r.evs)
              ELSE Raise(<<Ev("step", "files", 0)>> \o r.evs)
    /\ UNCHANGED <<mounts, policy_rc, apt_files, apt_text, diverted, detect_virt, seed, stack, dl, common>>

\* what "snap known --remote" can print: documents as lines, a line as its
\* pieces between the colons (line.split(":"))
KnownReplies ==
    << << <<"type", " model">>, <<"sign-key-sha3-384", " k1">> >>,
       << <<"type", " account-key">>, <<"account-id", " a1">> >>,
       << <<"type", " account">>, <<"account-id", " a1">> >>,
       << <<"sign-key-sha3-384", " k2">>, <<"account-id", " a2">>,
          <<"sign-key-sha3-384", " k1">>, <<"account-id", " a1">> >>,
       << <<"type", " model">> >>,
       << <<"sign-key-sha3-384", "">>, <<"account-id", " ">> >>,
       << <<"sign-key-sha3-384">>, <<"account-id", " a2", "b">> >> >>

\* the replies of a store that behaves: model, account-key, account
RegularReplies == <<1, 2, 3>>

\* str.strip() of the pieces above
strip(piece) ==
    CASE piece = " k1" -> "k1"
      [] piece = " k2" -> "k2"
      [] piece = " a1" -> "a1"
      [] piece = " a2" -> "a2"
      [] piece = " " -> ""
      [] OTHER -> piece

\* line.startswith(key + ":")
StartsWith(line, key) == Len(line) >= 2 /\ line[1] = key

FieldOf_last(doc, key) ==
    LET hits == {i \in 1..Len(doc) : StartsWith(doc[i], key)}
    IN  IF hits = {} THEN None
        ELSE strip(doc[CHOOSE i \in hits : \A h \in hits : h <= i][2])

\* the for loop with break: line.split(":")[1].strip() of the first line
\* that starts with the key, None without such a line
FieldOf(doc, key) ==
    LET hits == {i \in 1..Len(doc) : StartsWith(doc[i], key)}
    IN  IF hits = {} THEN None
        ELSE strip(doc[CHOOSE i \in hits : \A h \in hits : i <= h][2])

\* open(f".../assertions/{name}", "w").write(text)
WriteAssertion(chain, name, text) ==
    {a \in chain : a.name # name} \cup {[name |-> name, text |-> text]}

ChainFails == {"none", "model", "account-key", "account"}

\* _snap_assertion_install with a snap configuration: [ok, chain, evs] for
\* the replies jm, jk, ja of the store and the command that exits non-zero
snap_assertion_install(chain, jm, jk, ja, fail) ==
    LET account_key == FieldOf(KnownReplies[jm], "sign-key-sha3-384")
        account_id == FieldOf(KnownReplies[jk], "account-id")
        c1 == WriteAssertion(chain, "model", KnownReplies[jm])
        c2 == WriteAssertion(c1, "account-key", KnownReplies[jk])
        c3 == WriteAssertion(c2, "account", KnownReplies[ja])
        e1 == <<Ev("cmd", "known_model", 0), Ev("reply", "model", jm)>>
        e2 == e1 \o <<Ev("write", "model", 0), Ev("cmd", "known_account_key", 0),
                      Ev("arg", account_key, 0), Ev("reply", "account-key", jk)>>
        e3 == e2 \o <<Ev("write", "account-key", 0), Ev("cmd", "known_account", 0),
                      Ev("arg", account_id, 0), Ev("reply", "account", ja),
                      Ev("write", "account", 0)>>
    IN  IF fail = "model"
        THEN [ok |-> FALSE, chain |-> chain, evs |-> <<Ev("raise", "assertion", 1)>>]
        ELSE IF ~Truthy(account_key)
        THEN [ok |-> FALSE, chain |-> chain, evs |-> e1 \o <<Ev("raise", "assertion", 1)>>]
        ELSE IF fail = "account-key"
        THEN [ok |-> FALSE, chain |-> c1,
              evs |-> e1 \o <<Ev("write", "model", 0), Ev("raise", "assertion", 2)>>]
        ELSE IF ~Truthy(account_id)
        THEN [ok |-> FALSE, chain |-> c1, evs |-> e2 \o <<Ev("raise", "assertion", 2)>>]
        ELSE IF fail = "account"
        THEN [ok |-> FALSE, chain |-> c2,
              evs |-> e2 \o <<Ev("write", "account-key", 0), Ev("raise", "assertion", 3)>>]
        ELSE [ok |-> TRUE, chain |-> c3, evs |-> e3]

\* the replies the run phase meets: those of a store that behaves, or one
\* of the three replaced by another document
NearRegular(jm, jk, ja) ==
    Cardinality({i \in 1..3 : <<jm, jk, ja>>[i] # RegularReplies[i]}) <= 1

\* _snap_assertion_install: model, account-key, account
SnapAssertionInstall ==
    /\ pc = "assertion"
    /\ IF ~conf.snap.present
       THEN /\ Goto(NextPc("assertion"), 1, <<Ev("step", "assertion", 0)>>)
            /\ UNCHANGED seed
       ELSE \E jm, jk, ja \in 1..Len(KnownReplies), fail \in ChainFails :
              LET r == snap_assertion_install(seed.chain, jm, jk, ja, fail)
                  cost == IF <<jm, jk, ja>> = RegularReplies /\ fail = "none" THEN 0 ELSE 1
              IN  /\ NearRegular(jm, jk, ja)
                  /\ fail # "none" => <<jm, jk, ja>> = RegularReplies
                  /\ seed' = [seed EXCEPT !.chain = r.chain]
                  /\ Move(IF r.ok THEN NextPc("assertion") ELSE "teardown",
                          IF r.ok THEN 1 ELSE 0, ~r.ok,
                          <<Ev("step", "assertion", 0)>> \o r.evs, cost)
    /\ UNCHANGED <<tree, mounts, policy_rc, apt_files, apt_text, diverted, detect_virt, stack, dl, common>>

\* _snaps_install: entry
SnapsInstall ==
    /\ pc = "snaps"
    /\ Goto(IF ~conf.snap.present THEN NextPc("snaps")
            ELSE IF conf.snap.snaps = <<>> THEN "snapd" ELSE "snap_install",
            1, <<Ev("step", "snaps", 0)>>)
    /\ UNCHANGED <<fsvars, stack, dl, common>>

\* the channels, numbered for the log
ChannelNo(c) == IndexOf(<<"stable", "edge">>, c)

\* one _snap_install call made by the run phase: the seed, the record of the
\* download and the continuation; site tells the caller: "download" for
\* _snaps_install, "download_base" for _snap_base_install
DoSnapInstall(site, evs0, name, channel, classic, p, i) ==
    \E scratch \in Scratches(name), fail \in FailPoints :
      \E pick \in Picks(scratch) :
        LET r == snap_install(seed, name, channel, classic, scratch, pick, fail)
            cost == IF Regular(name, scratch) /\ fail = "none" THEN 0 ELSE 1
            ran == IF fail = "download" THEN <<>>
                   ELSE <<Ev("cmd", "snap_download", 0), Ev(site, name, ChannelNo(channel))>>
        IN  /\ (fail # "none") = (r.why = "cmd")
            /\ fail # "none" => Regular(name, scratch)
            /\ seed' = r.seed
            /\ dl' = DlRecord(name, channel, classic, scratch, pick, seed, r.ok)
            /\ IF r.ok THEN Move(p, i, exc, evs0 \o ran, cost)
               ELSE Move("teardown", 0, TRUE, evs0 \o ran \o <<Ev("raise", "snaps", 0)>>, cost)

\* _snaps_install: _snap_install of the idx-th configured snap
SnapInstall ==
    /\ pc = "snap_install"
    /\ LET sn == conf.snap.snaps[idx]
       IN  DoSnapInstall("download", <<>>, sn.name, sn.channel, sn.classic, "snap_base", idx)
    /\ UNCHANGED <<tree, mounts, policy_rc, apt_files, apt_text, diverted, detect_virt, stack, common>>

\* _snap_base_install: is a base to be downloaded for this metadata
BaseWanted(sd, info) == info.type # "base" /\ Glob(sd.snaps, info.base) = {}

\* _snaps_install: _snap_base_install of the idx-th configured snap
SnapBaseInstall ==
    /\ pc = "snap_base"
    /\ LET name == conf.snap.snaps[idx].name
           snaps == Glob(seed.snaps, name)
           p == IF idx = Len(conf.snap.snaps) THEN "snapd" ELSE "snap_install"
       IN  IF Cardinality(snaps) # 1
           THEN Raise(<<Ev("raise", "snaps", 1)>>) /\ UNCHANGED <<seed, dl>>
           ELSE \/ \* "snap info" fails
                   Throw(<<Ev("raise", "snaps", 2)>>) /\ UNCHANGED <<seed, dl>>
                \/ LET info == SnapMeta[(CHOOSE f \in snaps : TRUE).name]
                   IN  IF info.type # "base" /\ info.base = ""
                       THEN Raise(<<Ev("cmd", "snap_info", 0), Ev("raise", "snaps", 3)>>)
                              /\ UNCHANGED <<seed, dl>>
                       ELSE IF BaseWanted(seed, info)
                       THEN DoSnapInstall("download_base", <<Ev("cmd", "snap_info", 0)>>,
                                          info.base, "stable", FALSE, p, idx + 1)
                       ELSE Goto(p, idx + 1, <<Ev("cmd", "snap_info", 0)>>)
                              /\ UNCHANGED <<seed, dl>>
    /\ UNCHANGED <<tree, mounts, policy_rc, apt_files, apt_text, diverted, detect_virt, stack, common>>

\* _snaps_install: the closing _snap_install("snapd", "stable")
SnapdInstall ==
    /\ pc = "snapd"
    /\ DoSnapInstall("download", <<>>, "snapd", "stable", FALSE, NextPc("snaps"), 1)
    /\ UNCHANGED <<tree, mounts, policy_rc, apt_files, apt_text, diverted, detect_virt, stack, common>>

\* _snap_preseed
SnapPreseed ==
    /\ pc = "preseed"
    /\ LET s0 == <<Ev("step", "preseed", 0)>>
           tools == <<Ev("cmd", "validate_seed", 1), Ev("cmd", "preseed_reset", 2),
                      Ev("cmd", "preseed", 3)>>
           g == MountSetup(mounts, aa_target)
       IN  IF ~seed.yaml.exists
           THEN Goto(NextPc("preseed"), 1, s0) /\ UNCHANGED mounts
           ELSE \/ \E k \in 1..3 :
                     /\ Throw(s0 \o SubSeq(tools, 1, k - 1) \o <<Ev("raise", "preseed", k)>>)
                     /\ UNCHANGED mounts
                \/ /\ ~conf.snap.present
                   /\ Goto(NextPc("preseed"), 1, s0 \o tools)
                   /\ UNCHANGED mounts
                \/ \* mount --bind with source None: run_command raises
                   /\ conf.snap.present /\ g.mount_done /\ ~conf.snap.aa
                   /\ Raise(s0 \o tools \o <<Ev("raise", "preseed", 4)>>)
                   /\ UNCHANGED mounts
                \/ \* the bind mount fails
                   /\ conf.snap.present /\ g.mount_done /\ conf.snap.aa
                   /\ Throw(s0 \o tools \o <<Ev("raise", "preseed", 4)>>)
                   /\ UNCHANGED mounts
                \/ \* apparmor_parser runs inside the guard; the guard exits
                   /\ conf.snap.present /\ (g.mount_done => conf.snap.aa)
                   /\ LET in == tools \o (IF g.mount_done THEN <<Ev("cmd", "mount_bind", 4)>> ELSE <<>>)
                          out == IF g.mount_done THEN <<Ev("cmd", "umount_bind", 6)>> ELSE <<>>
                      IN  \/ /\ mounts' = MountTeardown(g.mounts, aa_target, g.mount_done)
                             /\ Goto(NextPc("preseed"), 1,
                                     s0 \o in \o <<Ev("cmd", "apparmor_parser", 5)>> \o out)
                          \/ \* apparmor_parser fails, the umount succeeds
                             /\ mounts' = MountTeardown(g.mounts, aa_target, g.mount_done)
                             /\ Throw(s0 \o in \o <<Ev("raise", "preseed", 5)>> \o out)
                          \/ \* the umount fails
                             /\ g.mount_done
                             /\ mounts' = g.mounts
                             /\ Throw(s0 \o in \o <<Ev("cmd", "apparmor_parser", 5),
                                                    Ev("raise", "preseed", 6)>>)
    /\ UNCHANGED <<tree, policy_rc, apt_files, apt_text, diverted, detect_virt, seed, stack, dl, common>>

CmdsPost ==
    /\ pc = "cmds_post"
    /\ CmdsRun("cmds_post", conf.cmds_post)
    /\ UNCHANGED <<mounts, policy_rc, apt_files, apt_text, diverted, detect_virt, seed,
                   stack, dl, common>>

----------------------------------------------------------------------------
(* Chroot.apply: ExitStack.__exit__ unwinds the guards *)

Top == stack[StackTop(stack)]

Pop == stack' = [j \in 1..(Len(stack) - 1) |-> IF j < StackTop(stack) THEN stack[j] ELSE stack[j + 1]]

Unwinding(kind) == pc = "teardown" /\ stack # <<>> /\ Top.kind = kind

Stay(evs) == log' = log \o evs /\ UNCHANGED <<pc, idx, exc, faults>>

\* _grub_divert after the yield
GrubDivertExit ==
    /\ Unwinding("grub")
    /\ Pop
    /\ IF ~TeardownRuns("grub", exc)
       THEN Stay(<<Ev("unwind", "grub", 0)>>) /\ UNCHANGED <<diverted, detect_virt>>
       ELSE \/ /\ diverted' = diverted \ {os_prober, systemd_detect_virt}
               /\ detect_virt' = "orig"
               /\ Stay(<<Ev("exit", "grub", 0)>>)
            \/ \* the first dpkg-divert --remove fails
               /\ Throw(<<Ev("raise", "grub_exit", 1)>>)
               /\ UNCHANGED <<diverted, detect_virt>>
            \/ \* the second dpkg-divert --remove fails, the stub is removed
               /\ diverted' = diverted \ {os_prober}
               /\ detect_virt' = "absent"
               /\ Throw(<<Ev("raise", "grub_exit", 2)>>)
    /\ UNCHANGED <<tree, mounts, policy_rc, apt_files, apt_text, seed, dl, common>>

\* _ppa_setup after the yield
PpaExit ==
    /\ Unwinding("ppa")
    /\ Pop
    /\ LET d == conf.ppas[Top.i]
       IN  IF ~TeardownRuns("ppa", exc)
           THEN Stay(<<Ev("unwind", "ppa", Top.i)>>) /\ UNCHANGED <<apt_files, apt_text>>
           ELSE /\ apt_files' = apt_files \ PpaRemoves(d)
                /\ apt_text' = Unlink(apt_text, PpaRemoves(d))
                /\ \/ Stay((IF RefreshAtTeardown(d)
                             THEN <<Ev("cmd", "apt_update", Top.i)>> ELSE <<>>)
                              \o <<Ev("exit", "ppa", Top.i)>>)
                   \/ /\ RefreshAtTeardown(d)
                      /\ Throw(<<Ev("raise", "ppa_exit", Top.i)>>)
    /\ UNCHANGED <<tree, mounts, policy_rc, diverted, detect_virt, seed, dl, common>>

\* _policy_rc_runlevel_ops after the yield
PolicyExit ==
    /\ Unwinding("policy")
    /\ Pop
    /\ IF ~TeardownRuns("policy", exc)
       THEN Stay(<<Ev("unwind", "policy", 0)>>) /\ UNCHANGED policy_rc
       ELSE /\ policy_rc' = PolicyTeardown(policy_rc, Top.acted)
            /\ Stay(<<Ev("exit", "policy", 0)>>)
    /\ UNCHANGED <<tree, mounts, apt_files, apt_text, diverted, detect_virt, seed, dl, common>>

\* _mount_fs: the finally clause
MountFsExit ==
    /\ Unwinding("mount")
    /\ Pop
    /\ LET t == mounts_fs[Top.i]
       IN  IF ~TeardownRuns("mount", exc)
           THEN Stay(<<Ev("unwind", "mount", Top.i)>>) /\ UNCHANGED mounts
           ELSE \/ /\ mounts' = MountTeardown(mounts, t, Top.acted)
                   /\ Stay((IF Top.acted THEN <<Ev("cmd", "umount", Top.i)>> ELSE <<>>)
                             \o <<Ev("exit", "mount", Top.i)>>)
                \/ \* umount fails: the target stays mounted
                   /\ Top.acted
                   /\ Throw(<<Ev("raise", "umount", Top.i)>>)
                   /\ UNCHANGED mounts
    /\ UNCHANGED <<tree, policy_rc, apt_files, apt_text, diverted, detect_virt, seed, dl, common>>

\* apply() returns, or the exception reaches the caller
ApplyReturn ==
    /\ pc = "teardown"
    /\ stack = <<>>
    /\ pc' = IF exc THEN "failed" ELSE "done"
    /\ runs' = Append(runs, [conf |-> conf, ok |-> ~exc])
    /\ UNCHANGED <<fsvars, idx, plan, conf, stack, exc, faults, pre, dl, image, peer, log>>

----------------------------------------------------------------------------
(* Specifications *)

Next ==
    \/ ContextLoad
    \/ ApplyStart
    \/ MountFsEnter
    \/ PolicyEnter
    \/ PpasNone
    \/ PpaEnter
    \/ PpasPolicy
    \/ GrubDivertEnter
    \/ CmdsPre
    \/ KernelInstall
    \/ DebsInstall
    \/ FilesInstall
    \/ SnapAssertionInstall
    \/ SnapsInstall
    \/ SnapInstall
    \/ SnapBaseInstall
    \/ SnapdInstall
    \/ SnapPreseed
    \/ CmdsPost
    \/ GrubDivertExit
    \/ PpaExit
    \/ PolicyExit
    \/ MountFsExit
    \/ ApplyReturn

\* no disk image: the target is a directory handed to chimg chrootfs
NoImage ==
    [phase |-> "none", mounted |-> FALSE, modifying |-> FALSE, output |-> "absent",
     before |-> "absent"]

\* no other process works on the target
NoPeer == [pc |-> "none", idx |-> 0, stack |-> <<>>]

\* a target before the first apply()
InitTarget(premounts, prepolicies, preseeds, pretrees) ==
    /\ mounts \in premounts
    /\ policy_rc \in prepolicies
    /\ apt_files = {}
    /\ apt_text = <<>>
    /\ diverted = {}
    /\ detect_virt = "orig"
    /\ seed \in preseeds
    /\ tree \in pretrees

\* no apply() has run yet: the apply() calls to come, and the image the
\* target is mounted from, if any
InitApply(start, plans, budget, images) ==
    /\ pc = start
    /\ idx = 0
    /\ plan \in plans
    /\ conf = EmptyConf
    /\ stack = <<>>
    /\ exc = FALSE
    /\ faults = budget
    /\ pre = [mounts |-> mounts, policy_rc |-> policy_rc, apt_files |-> apt_files,
              apt_text |-> apt_text, seed |-> seed, tree |-> tree]
    /\ dl = NoDl
    /\ runs = <<>>
    /\ image \in images
    /\ log = <<>>

InitCalls(start, plans, budget, images) ==
    /\ InitApply(start, plans, budget, images)
    /\ peer = NoPeer

InitControl(start, plans, budget) == InitCalls(start, plans, budget, {NoImage})

InitWith(start, plans, premounts, prepolicies, budget) ==
    /\ InitTarget(premounts, prepolicies, {EmptySeed}, {EmptyTree})
    /\ InitControl(start, plans, budget)

\* repository a declares a key, credentials and a pin, repository b none
PpaChoices ==
    {d \in PpaDecls : /\ d.fingerprint = (d.name = "a")
                      /\ LoginGiven(d) = d.fingerprint
                      /\ d.username = None <=> d.password = None
                      /\ d.auth_lines = <<>>
                      /\ d.pin = d.fingerprint}

Sn(n, c) == [name |-> n, channel |-> c, classic |-> FALSE]

\* ConfigSnapPackage declarations: applications on core22, on core and
\* without a base, a classic one, and the base core22 itself
SnapDecls ==
    {Sn("hello", "stable"), [Sn("hello", "edge") EXCEPT !.classic = TRUE],
     Sn("chimg", "stable"), Sn("oldapp", "stable"), Sn("nobase", "stable"),
     Sn("core22", "edge"), Sn("core22", "stable")}

SnapConf(snaps, aa) ==
    [EmptyConf EXCEPT !.snap = [present |-> TRUE, aa |-> aa, snaps |-> snaps]]

GuardConfs == {[EmptyConf EXCEPT !.ppas = l] : l \in SeqsUpTo(PpaChoices, MaxPpas)}

RunConfs ==
    {[EmptyConf EXCEPT !.kernel = TRUE,
                       !.debs = <<Deb("linux-tools", "True"), Deb("vim", None)>>,
                       !.files = <<FileDecl(<<"/", "etc", "motd">>, "hello", None, None)>>,
                       !.cmds_pre = 1, !.cmds_post = 1],
     SnapConf(<<Sn("hello", "stable")>>, TRUE)}

\* file declarations as a document can carry them, valid or not
FileDecls ==
    {FileDecl(dst, content, source, owner) :
       dst \in {<<"/", "etc", "chimg", "motd">>, <<"opt">>},
       content \in {None, "", "hello"},
       source \in {None, "srcfile", "srcdir"},
       owner \in {None, "0", "root"}}

FileConfs == {[EmptyConf EXCEPT !.files = <<f>>] : f \in FileDecls}

DebConfs ==
    {[EmptyConf EXCEPT !.debs = <<Deb("vim", h)>>] : h \in {"True", "False", None}}

PreMounts == {{}, {"/dev", "/proc"}}

\* one apply() on a target
Init ==
    InitWith("idle", {<<c>> : c \in GuardConfs \cup RunConfs \cup FileConfs \cup DebConfs}, PreMounts,
             {"absent", "target"}, MaxFaults)

Spec == Init /\ [][Next]_vars

----------------------------------------------------------------------------
(* Reading the log of the running apply() *)

Has(e) == \E j \in 1..Len(log) : log[j] = e

IsRaise(e) == e.ev = "raise"

IsStep(e) == e.ev = "step"

IsGuardEnter(e) == e.ev = "enter" /\ e.obj \in {"mount", "policy", "ppa", "grub"}

IsGuardExit(e) == e.ev = "exit" /\ e.obj \in {"mount", "policy", "ppa", "grub"}

IsMountCmd(e) == e.ev = "cmd" /\ e.obj = "mount"

IsUmountCmd(e) == e.ev = "cmd" /\ e.obj = "umount"

Reverse(s) == [j \in 1..Len(s) |-> s[Len(s) + 1 - j]]

\* the event that made the exception leave the with-body
FirstRaise == SelectSeq(log, IsRaise)[1]

RaisedInRunPhase == SelectSeq(log, IsRaise) # <<>> /\ FirstRaise.obj \in Range(RunSteps)

RaisedInSetup ==
    SelectSeq(log, IsRaise) # <<>> /\ FirstRaise.obj \in {"mount", "ppa", "ppas", "grub"}

\* what a complete teardown leaves of the guards this run entered
MountsUndone == \A i \in 1..NMounts : Has(Ev("cmd", "mount", i)) => mounts_fs[i] \notin mounts

PolicyUndone == pre.policy_rc = "absent" => policy_rc = "absent"

DiversionsUndone == Has(Ev("enter", "grub", 0)) => diverted = {}

PpaFilesOf(d) == {f \in apt_files : f[1] = d.name}

PpasUndone ==
    \A i \in 1..Len(conf.ppas) :
      Has(Ev("enter", "ppa", i)) /\ ~conf.ppas[i].keep => PpaFilesOf(conf.ppas[i]) = {}

----------------------------------------------------------------------------
(* Properties *)

\* C1: an exception raised in the run phase of apply() reaches the caller
\* only after every entered guard is torn down: the mounts of the run are
\* unmounted, the policy-rc.d file written by the run is removed, both
\* diversions are reversed and the files of every non-kept repository are
\* deleted.
C1_RunFailureTearsDownAll ==
    pc = "failed" /\ RaisedInRunPhase =>
      MountsUndone /\ PolicyUndone /\ DiversionsUndone /\ PpasUndone

\* C2: when the setup of a guard fails while apply() enters the guard stack,
\* every guard whose setup had completed is torn down before the error
\* propagates: the policy-rc.d file written by this run is removed and the
\* files of the non-kept repositories already set up are deleted.
C2_SetupFailureTearsDownEntered ==
    pc = "failed" /\ RaisedInSetup =>
      MountsUndone /\ PolicyUndone /\ DiversionsUndone /\ PpasUndone

\* C3: the run-phase steps start in the order of RunSteps, each once, only
\* after the four guards are entered; once a step has failed no later step
\* starts and the only commands still run are the umounts of the guards.
C3_StepsInOrder ==
    LET steps == SelectSeq(log, IsStep)
    IN  /\ Len(steps) <= Len(RunSteps)
        /\ \A j \in 1..Len(steps) : steps[j].obj = RunSteps[j]
        /\ \A q \in 1..Len(log) :
             IsStep(log[q]) =>
               /\ \A i \in 1..NMounts : \E p \in 1..(q - 1) : log[p] = Ev("enter", "mount", i)
               /\ \E p \in 1..(q - 1) : log[p] = Ev("enter", "policy", 0)
               /\ \E p \in 1..(q - 1) : log[p] = Ev("enter", "ppas", 0)
               /\ \E p \in 1..(q - 1) : log[p] = Ev("enter", "grub", 0)
        /\ \A p \in 1..Len(log) : \A q \in (p + 1)..Len(log) :
             IsRaise(log[p]) =>
               /\ ~IsStep(log[q])
               /\ (log[q].ev = "cmd" => log[q].obj \in {"umount", "umount_bind"})

C3_Witness ==
    /\ pc = "done"
    /\ conf.kernel
    /\ Len(SelectSeq(log, IsStep)) = Len(RunSteps)

\* the guards of a configuration, in the order apply() enters them
GuardOrder(c) ==
    [i \in 1..NMounts |-> Ev("enter", "mount", i)]
      \o <<Ev("enter", "policy", 0)>>
      \o [i \in 1..Len(c.ppas) |-> Ev("enter", "ppa", i)]
      \o <<Ev("enter", "grub", 0)>>

AsExit(e) == Ev("exit", e.obj, e.i)

\* C4: on a successful apply() the guards are entered in the order mounts
\* (in mounts_fs order), policy block, repositories (in declaration order),
\* diversion, and are torn down in exactly the reverse order; the umounts run
\* in the reverse of the order of the mounts.
C4_TeardownReversesSetup ==
    pc = "done" =>
      LET enters == SelectSeq(log, IsGuardEnter)
          exits == SelectSeq(log, IsGuardExit)
          ms == SelectSeq(log, IsMountCmd)
          us == SelectSeq(log, IsUmountCmd)
      IN  /\ enters = GuardOrder(conf)
          /\ exits = Reverse([j \in 1..Len(enters) |-> AsExit(enters[j])])
          /\ Len(us) = Len(ms)
          /\ \A j \in 1..Len(us) : us[j].i = Reverse(ms)[j].i
          /\ \A j \in 1..(Len(ms) - 1) : ms[j].i < ms[j + 1].i

C4_Witness ==
    /\ pc = "done"
    /\ Len(conf.ppas) = MaxPpas
    /\ Has(Ev("cmd", "umount", 1))
    /\ Has(Ev("cmd", "umount", 2))

\* C6: the policy-block guard writes usr/sbin/policy-rc.d only if no file is
\* there at entry and removes it on normal exit only if it wrote it: a file
\* the target carried is never replaced or removed, and a target without one
\* has none after a successful apply().
C6_PolicyOnlyOwnFile ==
    /\ pc # "idle" /\ pre.policy_rc # "absent" => policy_rc = pre.policy_rc
    /\ pc = "done" => policy_rc = pre.policy_rc

C6_Witness ==
    /\ pc = "done"
    /\ pre.policy_rc = "absent"
    /\ Has(Ev("exit", "policy", 0))
    /\ policy_rc = "absent"

\* the repository guard whose teardown has just completed
JustExitedPpa(i) == log # <<>> /\ log[Len(log)] = Ev("exit", "ppa", i)

KeptFilesPresent(d) ==
    /\ <<d.name, "sources">> \in apt_files
    /\ d.fingerprint => <<d.name, "key">> \in apt_files

\* C7 as stated: after the guard cycle of a repository completes none of its
\* four files exists if keep is not set; with keep set the sources file (and
\* the key file, with a fingerprint) exists.
C7_Original ==
    \A i \in 1..Len(conf.ppas) :
      JustExitedPpa(i) =>
        IF conf.ppas[i].keep THEN KeptFilesPresent(conf.ppas[i])
        ELSE PpaFilesOf(conf.ppas[i]) = {}

\* a declaration after the i-th that has its name and lacks keep
Shadowed(c, i) ==
    \E j \in (i + 1)..Len(c.ppas) : c.ppas[j].name = c.ppas[i].name /\ ~c.ppas[j].keep

\* C7 amended: as C7, the kept half for the declarations that no later
\* declaration of the same name without keep follows.
C7_KeepDecidesFiles ==
    \A i \in 1..Len(conf.ppas) :
      JustExitedPpa(i) =>
        IF conf.ppas[i].keep
        THEN ~Shadowed(conf, i) => KeptFilesPresent(conf.ppas[i])
        ELSE PpaFilesOf(conf.ppas[i]) = {}

C7_Witness ==
    /\ Len(conf.ppas) = 2
    /\ conf.ppas[1].keep /\ conf.ppas[1].fingerprint
    /\ ~conf.ppas[2].keep /\ conf.ppas[2].name # conf.ppas[1].name
    /\ JustExitedPpa(1)
    /\ <<conf.ppas[1].name, "key">> \in apt_files
    /\ PpaFilesOf(conf.ppas[2]) = {}

----------------------------------------------------------------------------
(* Mount guards entered one inside the other:                              *)
(*   with _mount_fs(.., t1, ..): with _mount_bind(.., t2): ...             *)

\* the targets of the nesting scenario: one of _mount, the one of _mount_bind
NestTargets == <<mounts_fs[1], aa_target>>

Entered == Len(SelectSeq(log, IsGuardEnter)) + Len(SelectSeq(log, IsRaise))

\* enter _mount_fs / _mount_bind on the i-th target
NestEnter ==
    /\ pc = "nest"
    /\ Entered < MaxEnters
    /\ \E i \in 1..Len(NestTargets) :
         LET r == MountSetup(mounts, NestTargets[i])
         IN  \/ /\ mounts' = r.mounts
                /\ stack' = Append(stack, Guard("mount", i, r.mount_done))
                /\ log' = log \o (IF r.mount_done THEN <<Ev("cmd", "mount", i)>> ELSE <<>>)
                              \o <<Ev("enter", "mount", i)>>
                /\ UNCHANGED faults
             \/ \* the mount command fails: the guard is not entered
                /\ r.mount_done
                /\ faults > 0
                /\ faults' = faults - 1
                /\ log' = Append(log, Ev("raise", "mount", i))
                /\ UNCHANGED <<mounts, stack>>
    /\ UNCHANGED <<tree, policy_rc, apt_files, apt_text, diverted, detect_virt, seed, pc, idx,
                   exc, dl, common>>

\* leave the innermost guard
NestExit ==
    /\ pc = "nest"
    /\ stack # <<>>
    /\ Pop
    /\ LET t == NestTargets[Top.i]
           cmd == IF Top.acted THEN <<Ev("cmd", "umount", Top.i)>> ELSE <<>>
       IN  \/ /\ mounts' = MountTeardown(mounts, t, Top.acted)
              /\ log' = log \o cmd \o <<Ev("exit", "mount", Top.i)>>
              /\ UNCHANGED faults
           \/ \* umount fails: the target stays mounted
              /\ Top.acted
              /\ faults > 0
              /\ faults' = faults - 1
              /\ log' = log \o cmd \o <<Ev("unwind", "mount", Top.i)>>
              /\ UNCHANGED mounts
    /\ UNCHANGED <<tree, policy_rc, apt_files, apt_text, diverted, detect_virt, seed, pc, idx,
                   exc, dl, common>>

NextNest == NestEnter \/ NestExit

InitNest == InitWith("nest", {<<>>}, SUBSET Range(NestTargets), {"absent"}, MaxFaults)

SpecNest == InitNest /\ [][NextNest]_vars

NestActed(i) == {j \in 1..Len(stack) : stack[j].i = i /\ stack[j].acted}

Count(e) == Cardinality({j \in 1..Len(log) : log[j] = e})

\* C5: a mount guard mounts only a target that is no mount point at entry
\* and unmounts exactly when that entry mounted: of the nested entries for
\* one target at most one has mounted, every mount is matched by one umount
\* when its guard exits, and a target mounted before the guards were entered
\* is never mounted or unmounted by them.
C5_MountOnceUmountOnce ==
    pc = "nest" =>
      \A i \in 1..Len(NestTargets) :
        /\ Cardinality(NestActed(i)) <= 1
        /\ Count(Ev("cmd", "mount", i)) = Count(Ev("cmd", "umount", i)) + Cardinality(NestActed(i))
        /\ NestTargets[i] \in pre.mounts =>
             /\ NestTargets[i] \in mounts
             /\ Count(Ev("cmd", "mount", i)) = 0
             /\ Count(Ev("cmd", "umount", i)) = 0

C5_Witness ==
    /\ pc = "nest"
    /\ stack = <<>>
    /\ log = <<Ev("cmd", "mount", 1), Ev("enter", "mount", 1), Ev("enter", "mount", 1),
               Ev("exit", "mount", 1), Ev("cmd", "umount", 1), Ev("exit", "mount", 1)>>
    /\ mounts = pre.mounts

----------------------------------------------------------------------------
(* The seed manifest under a sequence of _snap_add_to_seed_yaml calls *)

SeedAdd ==
    /\ pc = "seed_add"
    /\ idx < MaxAdds
    /\ \E name \in {"hello", "core22", "chimg"}, channel \in Channels, rev \in Revs,
          classic \in BOOLEAN :
         /\ seed' = [seed EXCEPT !.yaml = snap_add_to_seed_yaml(@, name, channel, File(name, rev), classic)]
         /\ dl' = DlRecord(name, channel, classic,
                           [asserts |-> {File(name, rev)}, snaps |-> {File(name, rev)}],
                           File(name, rev), seed, TRUE)
         /\ runs' = Append(runs, [name |-> name, channel |-> channel,
                                  file |-> File(name, rev), classic |-> classic])
    /\ idx' = idx + 1
    /\ UNCHANGED <<tree, mounts, policy_rc, apt_files, apt_text, diverted, detect_virt, pc, stack,
                   exc, faults, log, plan, conf, pre, image, peer>>

NextSeedAdd == SeedAdd

InitSeedAdd == InitWith("seed_add", {<<>>}, {{}}, {"absent"}, 0)

SpecSeedAdd == InitSeedAdd /\ [][NextSeedAdd]_vars

\* the entries of seed.yaml, read back
Manifest(y) == IF y.exists THEN yaml_load(y.text) ELSE <<>>

Names(l) == {l[j].name : j \in 1..Len(l)}

\* C10: adding a name that seed.yaml lists leaves the manifest unchanged;
\* adding a name it does not list appends exactly the entry {name, channel,
\* file, classic} after the prior entries, which stay as they were; no two
\* entries of the manifest share a name.
C10_IncrementalAdd ==
    pc = "seed_add" /\ dl.name # "" =>
      LET old == Manifest(dl.before.yaml)
          new == Manifest(seed.yaml)
      IN  /\ IF dl.name \in Names(old) THEN new = old
             ELSE new = Append(old, [name |-> dl.name, channel |-> dl.channel,
                                     file |-> dl.file, classic |-> dl.classic])
          /\ \A j, k \in 1..Len(new) : new[j].name = new[k].name => j = k

\* the calls made so far name pairwise distinct snaps
DistinctNames(l) == \A j, k \in 1..Len(l) : l[j].name = l[k].name => j = k

\* C24: after adding snaps with pairwise distinct names to an absent
\* manifest, seed.yaml read back has exactly the added entries (name,
\* channel, file, classic) in insertion order, under the one key snaps.
C24_SeedRoundTrip ==
    pc = "seed_add" /\ runs # <<>> /\ DistinctNames(runs) =>
      /\ seed.yaml.exists
      /\ yaml_load(seed.yaml.text) = runs
      /\ {j \in 1..Len(seed.yaml.text) : seed.yaml.text[j].k = "snaps"} = {1}

C24_Witness ==
    /\ pc = "seed_add"
    /\ Len(runs) = 3
    /\ DistinctNames(runs)
    /\ runs[1].name = "hello" /\ runs[1].classic
    /\ runs[2].name = "chimg" /\ runs[2].channel = "edge"

C10_Witness ==
    /\ pc = "seed_add"
    /\ Len(Manifest(dl.before.yaml)) = 2
    /\ dl.name \in Names(Manifest(dl.before.yaml))
    /\ \E j \in 1..2 : Manifest(seed.yaml)[j].name = dl.name /\ Manifest(seed.yaml)[j].channel # dl.channel

----------------------------------------------------------------------------
(* Repeated apply() on one target with snap configuration *)

SeedConfs ==
    {EmptyConf,
     SnapConf(<<Sn("hello", "stable")>>, TRUE),
     [SnapConf(<<Sn("hello", "edge")>>, TRUE) EXCEPT
        !.ppas = <<[name |-> "a", keep |-> FALSE, fingerprint |-> TRUE,
                    username |-> "bearer", password |-> "secret",
                    auth_lines |-> <<>>, pin |-> TRUE]>>]}

\* one apply() with a snap section of up to MaxSnaps snaps
SnapsConfs ==
    {SnapConf(l, TRUE) : l \in SeqsUpTo(SnapDecls, MaxSnaps)}
      \cup {SnapConf(<<Sn("hello", "stable")>>, FALSE),
            [SnapConf(<<Sn("chimg", "stable")>>, TRUE) EXCEPT
               !.ppas = <<[name |-> "b", keep |-> TRUE, fingerprint |-> FALSE,
                           username |-> None, password |-> None,
                           auth_lines |-> <<>>, pin |-> FALSE]>>]}

InitSnaps == InitWith("idle", {<<c>> : c \in SnapsConfs}, {{}}, {"absent"}, 0)

SpecSnaps == InitSnaps /\ [][Next]_vars

InitSeed ==
    InitWith("idle", SeqsUpTo(SeedConfs, MaxRuns) \ {<<>>}, {{}}, {"absent"}, 0)

SpecSeed == InitSeed /\ [][Next]_vars

\* C8: a download whose scratch directory does not hold exactly one .assert
\* and exactly one .snap file fails, moves nothing into the seed directories
\* and adds no manifest entry.
C8_BadScratchRejected ==
    pc \in {"teardown", "snap_base", "snap_install", "snapd", "preseed"}
      /\ dl.name # "" /\ (dl.n_asserts # 1 \/ dl.n_snaps # 1) =>
        /\ ~dl.ok
        /\ seed.snaps = dl.before.snaps
        /\ seed.asserts = dl.before.asserts
        /\ seed.yaml = dl.before.yaml

Requested(c, n) == {j \in 1..Len(c.snap.snaps) : c.snap.snaps[j].name = n}

\* C9: when apply() succeeds with snap S at channel c1 and then succeeds on
\* the same target with S at another channel c2, the manifest entry of S has
\* channel c2 and exactly one S_*.snap and one S_*.assert file exist.
C9_ChannelFollowsLastApply ==
    pc = "done" /\ Len(runs) >= 2 /\ runs[Len(runs) - 1].ok /\ runs[Len(runs)].ok =>
      \A n \in SnapNames :
        \A j \in Requested(runs[Len(runs) - 1].conf, n), k \in Requested(runs[Len(runs)].conf, n) :
          LET c1 == runs[Len(runs) - 1].conf.snap.snaps[j].channel
              c2 == runs[Len(runs)].conf.snap.snaps[k].channel
              m == Manifest(seed.yaml)
          IN  c1 # c2 =>
                /\ \E e \in 1..Len(m) : m[e].name = n /\ m[e].channel = c2
                /\ Cardinality({f \in seed.snaps : f.name = n}) = 1
                /\ Cardinality({f \in seed.asserts : f.name = n}) = 1

----------------------------------------------------------------------------
(* Packages, files and configuration validation *)

PosOf(e) == CHOOSE q \in 1..Len(log) : log[q] = e

\* C18: installing a deb runs exactly one apt-get install for the package
\* and, if and only if hold is set, exactly one apt-mark hold for it, after
\* the install; when the install fails no hold is issued.
C18_InstallThenHold ==
    \A j \in 1..Len(conf.debs) :
      LET inst == Ev("cmd", "apt_install", j)
          hold == Ev("cmd", "apt_mark_hold", j)
      IN  /\ Count(inst) <= 1
          /\ Count(hold) <= 1
          /\ Has(hold) => /\ conf.debs[j].hold = "True"
                          /\ Has(inst)
                          /\ PosOf(inst) < PosOf(hold)
          /\ Has(Ev("step", "files", 0)) =>
               /\ Count(inst) = 1
               /\ Count(hold) = (IF conf.debs[j].hold = "True" THEN 1 ELSE 0)

C18_Witness ==
    /\ pc = "done"
    /\ Len(conf.debs) = 2
    /\ Has(Ev("cmd", "apt_mark_hold", 1))
    /\ Has(Ev("cmd", "apt_install", 2))
    /\ ~Has(Ev("cmd", "apt_mark_hold", 2))

\* C19: once the file step has run, every declaration with content set (the
\* empty string included) whose destination lies under a directory chain the
\* target did not have has its chain created and its file on the target, the
\* bytes of the file equal to the declared content.
C19_ContentFileWritten ==
    Has(Ev("step", "files", 0)) =>
      \A j \in 1..Len(conf.files) :
        LET f == conf.files[j]
        IN  f.content # None /\ Dirname(f.destination) \notin pre.tree.dirs =>
              /\ Prefixes(Dirname(f.destination)) \subseteq tree.dirs
              /\ \E g \in tree.files : g.path = f.destination /\ g.data = f.content

ExactlyOneSet(f) == (f.content = None) # (f.source = None)

\* C20: a document is accepted exactly when every file declaration has
\* exactly one of content and source set; a document with a declaration that
\* sets both or neither is rejected when it is loaded, before apply() has done
\* anything.
C20_ExactlyOneOfContentSource ==
    /\ pc = "rejected" =>
         /\ \E j \in 1..Len(conf.files) : ~ExactlyOneSet(conf.files[j])
         /\ log = <<>>
         /\ stack = <<>>
         /\ runs = <<>>
    /\ pc \notin {"idle", "rejected"} =>
         \A j \in 1..Len(conf.files) : ExactlyOneSet(conf.files[j])

C20_Witness ==
    /\ pc = "rejected"
    /\ Len(conf.files) = 1
    /\ conf.files[1].content = ""
    /\ conf.files[1].source # None

----------------------------------------------------------------------------
(* The assertion trust chain against any replies of the store *)

\* one _snap_assertion_install call; log holds what the latest call did
ChainInstall ==
    /\ pc = "chain"
    /\ idx < MaxChains
    /\ \E jm, jk, ja \in 1..Len(KnownReplies), fail \in ChainFails :
         LET r == snap_assertion_install(seed.chain, jm, jk, ja, fail)
         IN  /\ fail # "none" => jk = RegularReplies[2] /\ ja = RegularReplies[3]
             /\ seed' = [seed EXCEPT !.chain = r.chain]
             /\ log' = r.evs
             /\ exc' = ~r.ok
    /\ idx' = idx + 1
    /\ pre' = [pre EXCEPT !.seed = seed]
    /\ UNCHANGED <<tree, mounts, policy_rc, apt_files, apt_text, diverted, detect_virt, pc,
                   stack, faults, dl, plan, conf, runs, image, peer>>

NextChain == ChainInstall

InitChain == InitWith("chain", {<<>>}, {{}}, {"absent"}, 0)

SpecChain == InitChain /\ [][NextChain]_vars

IsKnownCmd(e) == e.ev = "cmd"

IsWrite(e) == e.ev = "write"

\* the document the store sent for an assertion, 0 when none was received
Reply(n) ==
    IF \E q \in 1..Len(log) : log[q].ev = "reply" /\ log[q].obj = n
    THEN log[CHOOSE q \in 1..Len(log) : log[q].ev = "reply" /\ log[q].obj = n].i
    ELSE 0

HasField(doc, key) == \E i \in 1..Len(doc) : StartsWith(doc[i], key)

\* v is what the first line of doc that carries the key says
FirstFieldIs(doc, key, v) ==
    \E i \in 1..Len(doc) :
      /\ StartsWith(doc[i], key)
      /\ \A h \in 1..(i - 1) : ~StartsWith(doc[h], key)
      /\ v = strip(doc[i][2])

\* the fetch cmd was made with the value of the key in the reply for n
FetchedWith(cmd, n, key) ==
    Has(Ev("cmd", cmd, 0)) =>
      /\ Reply(n) # 0
      /\ log[PosOf(Ev("cmd", cmd, 0)) + 1].ev = "arg"
      /\ FirstFieldIs(KnownReplies[Reply(n)], key, log[PosOf(Ev("cmd", cmd, 0)) + 1].obj)

\* C17: the chain is fetched in the order model, account-key, account, each
\* fetch made with the value of the first matching line of the document
\* before it; a model assertion without sign-key-sha3-384 raises before the
\* account-key fetch with none of the three files written, an account-key
\* assertion without account-id raises before the account fetch with only the
\* model file written.
C17_ChainInOrder ==
    pc = "chain" /\ log # <<>> =>
      LET cmds == SelectSeq(log, IsKnownCmd)
          writes == SelectSeq(log, IsWrite)
          order == <<"known_model", "known_account_key", "known_account">>
      IN  /\ Len(cmds) <= 3
          /\ \A j \in 1..Len(cmds) : cmds[j].obj = order[j]
          /\ FetchedWith("known_account_key", "model", "sign-key-sha3-384")
          /\ FetchedWith("known_account", "account-key", "account-id")
          /\ Reply("model") # 0 /\ ~HasField(KnownReplies[Reply("model")], "sign-key-sha3-384") =>
               /\ exc
               /\ ~Has(Ev("cmd", "known_account_key", 0))
               /\ writes = <<>>
               /\ seed.chain = pre.seed.chain
          /\ Reply("account-key") # 0 /\ ~HasField(KnownReplies[Reply("account-key")], "account-id") =>
               /\ exc
               /\ ~Has(Ev("cmd", "known_account", 0))
               /\ writes = <<Ev("write", "model", 0)>>
               /\ {a \in seed.chain : a.name # "model"} = {a \in pre.seed.chain : a.name # "model"}
               /\ [name |-> "model", text |-> KnownReplies[Reply("model")]] \in seed.chain

C17_Witness ==
    /\ pc = "chain"
    /\ ~exc
    /\ pre.seed.chain = {}
    /\ Reply("model") = 4
    /\ Reply("account-key") = 4
    /\ Has(Ev("arg", "k2", 0))
    /\ Has(Ev("arg", "a2", 0))
    /\ {a.name : a \in seed.chain} = {"model", "account-key", "account"}

----------------------------------------------------------------------------
(* The seed after one apply() with a snap section *)

IsDownload(e) == e.ev \in {"download", "download_base"}

\* the downloads of snap n made by the running apply(), in order
DownloadsOf(n) == SelectSeq(log, LAMBDA e : IsDownload(e) /\ e.obj = n)

Configured(c) == {c.snap.snaps[j].name : j \in 1..Len(c.snap.snaps)}

\* the bases the configured snaps declare ("snap info": type is not base)
DeclaredBases(c) ==
    {SnapMeta[n].base : n \in {x \in Configured(c) : SnapMeta[x].type # "base"}} \ {""}

Listed(n, channel, classic) ==
    \E e \in 1..Len(Manifest(seed.yaml)) :
      /\ Manifest(seed.yaml)[e].name = n
      /\ Manifest(seed.yaml)[e].channel = channel
      /\ Manifest(seed.yaml)[e].classic = classic

\* C11: after a successful apply() with a snap section on a target without
\* a seed, the manifest has an entry for every configured snap with its
\* channel and classic flag, one for the declared base of every configured
\* snap that is no base, and one for snapd; every entry has exactly one
\* <name>_*.snap and one <name>_*.assert file.
C11_SeedComplete ==
    pc = "done" /\ conf.snap.present /\ pre.seed = EmptySeed =>
      /\ \A j \in 1..Len(conf.snap.snaps) :
           Listed(conf.snap.snaps[j].name, conf.snap.snaps[j].channel, conf.snap.snaps[j].classic)
      /\ DeclaredBases(conf) \cup {"snapd"} \subseteq Names(Manifest(seed.yaml))
      /\ \A n \in Names(Manifest(seed.yaml)) :
           /\ Cardinality({f \in seed.snaps : f.name = n}) = 1
           /\ Cardinality({f \in seed.asserts : f.name = n}) = 1

\* C12: for a snap section with one snap whose metadata has no base (and
\* which is no base itself), base resolution downloads core once, from
\* stable, and raises no error.
C12_NoBaseMeansCore ==
    pc \in {"done", "failed"} /\ Len(conf.snap.snaps) = 1 =>
      LET info == SnapMeta[conf.snap.snaps[1].name]
      IN  info.type = "app" /\ info.base = "" =>
            /\ ~Has(Ev("raise", "snaps", 3))
            /\ DownloadsOf("core") = <<Ev("download_base", "core", ChannelNo("stable"))>>

\* C13: when the base X of a configured snap A is itself configured, a
\* successful apply() has downloaded X once, from the channel declared for
\* X, the manifest entry of X has that channel, and no base was downloaded
\* by base resolution before the last configured snap was downloaded;
\* whichever of A and X comes first.
C13_ExplicitBaseOnce ==
    pc = "done" =>
      \A j, k \in 1..Len(conf.snap.snaps) :
        LET a == conf.snap.snaps[j]
            x == conf.snap.snaps[k]
        IN  SnapMeta[a.name].type # "base" /\ SnapMeta[a.name].base = x.name =>
              /\ DownloadsOf(x.name) = <<Ev("download", x.name, ChannelNo(x.channel))>>
              /\ Listed(x.name, x.channel, x.classic)
              /\ \A p, q \in 1..Len(log) :
                   log[p].ev = "download_base" /\ log[q].ev = "download" /\ log[q].obj # "snapd"
                     => q < p

\* C14: a base X that configured snaps declare and that is not configured
\* itself is downloaded exactly once, from stable, during a successful
\* apply(), however many configured snaps declare it.
C14_SharedBaseOnce ==
    pc = "done" /\ conf.snap.present =>
      \A x \in DeclaredBases(conf) \ Configured(conf) :
        DownloadsOf(x) = <<Ev("download_base", x, ChannelNo("stable"))>>

PreseedTools == {"validate_seed", "preseed_reset", "preseed"}

\* C15: an apply() whose configuration has no snap section runs none of the
\* seed validator, the preseed reset and the preseeding tool, whatever the
\* target holds.
C15_NoSnapNoPreseed ==
    ~conf.snap.present =>
      \A q \in 1..Len(log) : ~(log[q].ev = "cmd" /\ log[q].obj \in PreseedTools)

\* C16: the preseed step validates the manifest, resets the preseed cache
\* and runs the preseeding tool, in that order; with an apparmor-features
\* path the preseeding tool runs while the bind mount is active, without one
\* no bind mount is attempted and the step raises nothing.
C16_PreseedInsideBindMount ==
    conf.snap.present /\ Has(Ev("cmd", "preseed", 3)) =>
      /\ Has(Ev("cmd", "validate_seed", 1)) /\ Has(Ev("cmd", "preseed_reset", 2))
      /\ PosOf(Ev("cmd", "validate_seed", 1)) < PosOf(Ev("cmd", "preseed_reset", 2))
      /\ PosOf(Ev("cmd", "preseed_reset", 2)) < PosOf(Ev("cmd", "preseed", 3))
      /\ IF conf.snap.aa
         THEN /\ Has(Ev("cmd", "mount_bind", 4))
              /\ PosOf(Ev("cmd", "mount_bind", 4)) < PosOf(Ev("cmd", "preseed", 3))
         ELSE /\ ~Has(Ev("cmd", "mount_bind", 4))
              /\ \A k \in 1..6 : ~Has(Ev("raise", "preseed", k))

----------------------------------------------------------------------------
(* The command runner (chimg/common.py) *)

\* the bytes a process writes, as hex, and what bytes.decode() makes of
\* them; ff is not UTF-8
Utf8 == [b \in {"20", "0a", "6f"} |->
           CASE b = "20" -> " " [] b = "0a" -> "\n" [] OTHER -> "o"]

Bytes == DOMAIN Utf8 \cup {"ff"}

\* the text of a stream that is not there
NoText == <<None>>

\* bytes.decode(): the text, or NoText where UnicodeDecodeError is raised
decode(bs) ==
    IF \E i \in 1..Len(bs) : bs[i] \notin DOMAIN Utf8 THEN NoText
    ELSE [i \in 1..Len(bs) |-> Utf8[bs[i]]]

Whitespace == {" ", "\n"}

\* str.strip()
strip_text(text) ==
    LET inked == {i \in 1..Len(text) : text[i] \notin Whitespace}
    IN  IF inked = {} THEN <<>>
        ELSE SubSeq(text, CHOOSE i \in inked : \A j \in inked : i <= j,
                          CHOOSE i \in inked : \A j \in inked : j <= i)

\* what one run_command call gives its caller: the returned pair, or the
\* exception with its attributes (returncode, cmd, output, stderr)
Outcome(raised, returncode, cmd, output, stderr, result) ==
    [raised |-> raised, returncode |-> returncode, cmd |-> cmd,
     output |-> output, stderr |-> stderr, result |-> result]

\* run_command: proc is what subprocess.run returns
run_command(cmd, env, cwd, shell, success_codes, proc) ==
    LET out == decode(proc.stdout)
        err == decode(proc.stderr)
    IN  IF out = NoText \/ err = NoText
        THEN Outcome("UnicodeDecodeError", -1, <<>>, NoText, NoText, <<NoText, NoText>>)
        ELSE IF proc.returncode \notin success_codes
        THEN Outcome("CalledProcessError", proc.returncode, cmd, NoText, NoText,
                     <<NoText, NoText>>)
        ELSE Outcome(None, -1, <<>>, NoText, NoText, <<strip_text(out), strip_text(err)>>)

\* one call of the runner: any command line, environment, directory and
\* acceptable codes, and any behaviour of the process
RunCommand ==
    /\ pc = "run_command"
    /\ \E cmd \in {<<"findmnt">>, <<"apt-get", "update">>},
          env \in {None, "DEBIAN_FRONTEND=noninteractive"},
          cwd \in {None, "/tmp"},
          shell \in BOOLEAN,
          success_codes \in {{0}, {0, 1}},
          returncode \in {0, 1, 2},
          stdout \in SeqsUpTo(Bytes, 2) \cup {<<"20", "6f", "0a">>},
          stderr \in {<<>>, <<"6f", "0a">>, <<"ff">>} :
         LET proc == [returncode |-> returncode, stdout |-> stdout, stderr |-> stderr]
         IN  dl' = [cmd |-> cmd, env |-> env, cwd |-> cwd, shell |-> shell,
                    success_codes |-> success_codes, proc |-> proc,
                    outcome |-> run_command(cmd, env, cwd, shell, success_codes, proc)]
    /\ pc' = "returned"
    /\ UNCHANGED <<fsvars, idx, plan, conf, stack, exc, faults, pre, runs, image, peer, log>>

NextRun == RunCommand

InitRun == InitWith("run_command", {<<>>}, {{}}, {"absent"}, 0)

SpecRun == InitRun /\ [][NextRun]_vars

\* C21: run_command returns the captured stdout and stderr (as text,
\* surrounding whitespace aside) when the exit code is in success_codes, and
\* otherwise raises an error that carries the exit code, the captured stdout
\* and stderr, the environment and the working directory of the call.
C21_RunnerReturnsOrRaises ==
    pc = "returned" =>
      LET o == dl.outcome
      IN  IF dl.proc.returncode \in dl.success_codes
          THEN /\ o.raised = None
               /\ o.result = <<strip_text(decode(dl.proc.stdout)),
                               strip_text(decode(dl.proc.stderr))>>
          ELSE /\ o.raised # None
               /\ o.returncode = dl.proc.returncode
               /\ o.output = decode(dl.proc.stdout)
               /\ o.stderr = decode(dl.proc.stderr)
               /\ "env" \in DOMAIN o /\ o.env = dl.env
               /\ "cwd" \in DOMAIN o /\ o.cwd = dl.cwd

----------------------------------------------------------------------------
(* The index refreshes of the repository guard *)

IsRefresh(e) == e.ev = "cmd" /\ e.obj = "apt_update"

\* the events of the log at the positions from..to
Span(from, to) == SubSeq(log, from, to)

CountIn(evs, e) == Cardinality({j \in 1..Len(evs) : evs[j] = e})

NonKept(c) == {i \in 1..Len(c.ppas) : ~c.ppas[i].keep}

\* C23: without repositories the repository guard refreshes the index once
\* at setup and not at teardown; with n >= 1 repositories the setup of each
\* refreshes it exactly once, the teardown of each non-kept one exactly once
\* more and the teardown of a kept one not at all.
C23_RefreshCounts ==
    LET n == Len(conf.ppas)
        setup == Span(1, PosOf(Ev("enter", "ppas", 0)))
        teardown == Span(PosOf(Ev("exit", "grub", 0)), Len(log))
    IN  /\ Has(Ev("enter", "ppas", 0)) =>
             /\ Len(SelectSeq(setup, IsRefresh)) = IF n = 0 THEN 1 ELSE n
             /\ \A i \in 1..n : CountIn(setup, Ev("cmd", "apt_update", i)) = 1
        /\ pc = "done" =>
             /\ Len(SelectSeq(teardown, IsRefresh)) = Cardinality(NonKept(conf))
             /\ \A i \in 1..n :
                  CountIn(teardown, Ev("cmd", "apt_update", i))
                    = IF conf.ppas[i].keep THEN 0 ELSE 1

C23_Witness ==
    /\ pc = "done"
    /\ Len(conf.ppas) = 2
    /\ conf.ppas[1].keep /\ ~conf.ppas[2].keep
    /\ Len(SelectSeq(log, IsRefresh)) = 3

----------------------------------------------------------------------------
(* The batch rewrite of the seed manifest: Chroot._snaps_create_seed_yaml   *)
(* is called by tests/test_chroot.py and described by the specification;    *)
(* chroot.py holds the incremental _snap_add_to_seed_yaml only.             *)

MaxRewrites == 2  \* _snaps_create_seed_yaml calls of the rewrite scenario

\* a SnapInfo as the manifest records it: name, channel, filename, classic
SnapInfo(n, c, r, classic) ==
    [name |-> n, channel |-> c, file |-> File(n, r), classic |-> classic]

SnapInfos ==
    {SnapInfo("hello", "stable", "1", FALSE), SnapInfo("hello", "edge", "2", TRUE),
     SnapInfo("core22", "stable", "1", FALSE), SnapInfo("chimg", "edge", "1", TRUE)}

\* the values of a dict keyed by snap name, in insertion order
SnapInfoDicts == {l \in SeqsUpTo(SnapInfos, 2) : DistinctNames(l)}

snaps_create_seed_yaml_merge(y, snap_infos) ==
    [exists |-> TRUE,
     text |-> yaml_dump((IF y.exists THEN yaml_load(y.text) ELSE <<>>) \o snap_infos)]

\* _snaps_create_seed_yaml: seed.yaml after the call, regenerated from the
\* given snaps alone
snaps_create_seed_yaml(y, snap_infos) ==
    [exists |-> TRUE, text |-> yaml_dump(snap_infos)]

SeedCreate ==
    /\ pc = "seed_create"
    /\ idx < MaxRewrites
    /\ \E snap_infos \in SnapInfoDicts :
         /\ seed' = [seed EXCEPT !.yaml = snaps_create_seed_yaml(@, snap_infos)]
         /\ dl' = [snap_infos |-> snap_infos, before |-> seed.yaml]
    /\ idx' = idx + 1
    /\ UNCHANGED <<tree, mounts, policy_rc, apt_files, apt_text, diverted, detect_virt,
                   pc, stack, exc, faults, log, common>>

NextSeedCreate == SeedCreate

\* a seed whose manifest is absent or was written by either policy
InitSeedCreate ==
    /\ InitTarget({{}}, {"absent"},
                  {EmptySeed} \cup {[EmptySeed EXCEPT !.yaml = snaps_create_seed_yaml(NoYaml, l)] :
                                      l \in SnapInfoDicts},
                  {EmptyTree})
    /\ InitControl("seed_create", {<<>>}, 0)

SpecSeedCreate == InitSeedCreate /\ [][NextSeedCreate]_vars

\* C25: _snaps_create_seed_yaml regenerates seed.yaml from the given snaps:
\* read back, the manifest has exactly one entry per given snap and no other
\* entry, whatever seed.yaml held before.
C25_BatchRewrite ==
    pc = "seed_create" /\ idx > 0 =>
      LET new == Manifest(seed.yaml)
      IN  /\ Len(new) = Len(dl.snap_infos)
          /\ \A j \in 1..Len(dl.snap_infos) :
               Cardinality({k \in 1..Len(new) : new[k] = dl.snap_infos[j]}) = 1
          /\ \A k \in 1..Len(new) : new[k] \in Range(dl.snap_infos)

C25_Witness ==
    /\ pc = "seed_create"
    /\ idx > 0
    /\ Len(dl.snap_infos) = 2
    /\ \E e \in Range(Manifest(dl.before)) : e.name \notin Names(dl.snap_infos)
    /\ Names(Manifest(seed.yaml)) = Names(dl.snap_infos)

----------------------------------------------------------------------------
(* Kernel install on a target with a bootloader configuration *)

FileOf(path, data) == [path |-> path, data |-> data, owner |-> None]

TreeOf(files) ==
    [dirs |-> {<<>>} \cup UNION {Prefixes(Dirname(g.path)) : g \in files}, files |-> files]

\* targets with boot/grub/grub.cfg, with and without the fragment of an
\* earlier kernel install
KernelTrees ==
    {TreeOf({FileOf(grub_cfg, text)} \cup frag) :
       text \in GrubCfgTexts,
       frag \in {{}, {FileOf(force_partuuid_cfg, ForcePartuuidText("0a1b"))}}}

\* a repository and a snap section next to the kernel configurations
CoverConf ==
    [SnapConf(<<Sn("hello", "edge")>>, TRUE) EXCEPT
       !.ppas = <<[name |-> "a", keep |-> FALSE, fingerprint |-> TRUE,
                   username |-> "bearer", password |-> "secret",
                   auth_lines |-> <<>>, pin |-> TRUE]>>]

KernelConfs ==
    {[EmptyConf EXCEPT !.kernel = TRUE, !.fs = f] : f \in {None, "rootfs"}} \cup {CoverConf}

InitKernel ==
    /\ InitTarget({{}}, {"absent"}, {EmptySeed}, KernelTrees)
    /\ InitControl("idle", SeqsUpTo(KernelConfs, MaxRuns) \ {<<>>}, 0)

SpecKernel == InitKernel /\ [][Next]_vars

HasRootRef(data) == sed_root_label(data, "x") # data

FragmentWritten == \E j \in 1..Len(log) : log[j].ev = "cmd" /\ log[j].obj = "update_grub"

SedRan == \E j \in 1..Len(log) : log[j].ev = "cmd" /\ log[j].obj = "sed_root_label"

KernelInstalled == pc = "debs" /\ conf.kernel

\* C26 as stated: after a kernel install the root= reference of grub.cfg is
\* rewritten to root=LABEL=<label> whenever this install did not write the
\* fragment and a label is configured, and is not rewritten when it did
C26_Original ==
    KernelInstalled =>
      /\ ( /\ ~FragmentWritten
           /\ Truthy(conf.fs)
           /\ grub_cfg \in FilePaths(pre.tree)
           /\ HasRootRef(DataOf(pre.tree, grub_cfg)) )
         => DataOf(tree, grub_cfg) = RootByLabel(conf.fs)
      /\ FragmentWritten => ~SedRan

\* C26: after a kernel install the root= reference of grub.cfg is rewritten
\* to root=LABEL=<label> whenever the fragment is not on the target (neither
\* written by this install nor left by an earlier one), a label is
\* configured and grub.cfg exists; when the fragment is on the target, sed
\* does not run and grub.cfg is what it was or what update-grub made of it
C26_RewriteUnlessFragment ==
    KernelInstalled =>
      LET present == force_partuuid_cfg \in FilePaths(tree)
      IN  /\ present <=> (FragmentWritten \/ force_partuuid_cfg \in FilePaths(pre.tree))
          /\ ( /\ ~present
               /\ Truthy(conf.fs)
               /\ grub_cfg \in FilePaths(pre.tree) )
             => /\ SedRan
                /\ DataOf(tree, grub_cfg) = sed_root_label(DataOf(pre.tree, grub_cfg), conf.fs)
                /\ HasRootRef(DataOf(pre.tree, grub_cfg))
                     => DataOf(tree, grub_cfg) = RootByLabel(conf.fs)
          /\ present =>
               /\ ~SedRan
               /\ DataOf(tree, grub_cfg) =
                    IF FragmentWritten THEN DataOf(update_grub(
                                               write_file(pre.tree, force_partuuid_cfg, "").tree).tree,
                                             grub_cfg)
                    ELSE DataOf(pre.tree, grub_cfg)

C26_Witness ==
    /\ KernelInstalled
    /\ SedRan
    /\ DataOf(pre.tree, grub_cfg) = "linux /vmlinuz root=PARTUUID=0a1b ro"
    /\ DataOf(tree, grub_cfg) = RootByLabel("rootfs")

----------------------------------------------------------------------------
(* Package-manager commands run inside the prepared target *)

\* one apply() that declares repositories and installs a kernel and debs
AptConfs ==
    {[EmptyConf EXCEPT !.ppas = l, !.kernel = TRUE,
                       !.debs = <<Deb("linux-tools", "True"), Deb("vim", None)>>] :
       l \in SeqsUpTo(PpaChoices, MaxPpas)}
      \cup {CoverConf}

InitApt == InitWith("idle", {<<c>> : c \in AptConfs}, PreMounts, {"absent", "target"}, MaxFaults)

SpecApt == InitApt /\ [][Next]_vars

\* _apt_update, the purge and install of _kernel_install, _deb_install
AptCmds == {"apt_update", "apt_purge_kernel", "apt_install_kernel", "apt_install", "apt_mark_hold"}

InstallCmds == {"apt_install_kernel", "apt_install"}

MountsAndPolicyInPlace == Range(mounts_fs) \subseteq mounts /\ policy_rc # "absent"

ReposAndDiversionsInPlace ==
    /\ \A j \in 1..Len(conf.ppas) : <<conf.ppas[j].name, "sources">> \in apt_files
    /\ {os_prober, systemd_detect_virt} \subseteq diverted

\* C28: whenever a package-manager command runs inside the target, all nine
\* mounts are in place and policy-rc.d exists; whenever a kernel or deb
\* install command runs, the sources file of every declared repository
\* exists and both diversions are in place (before and after the step that
\* runs the command)
C28_AptRunsPrepared ==
    [][LET ran == IF Len(log') >= Len(log) /\ SubSeq(log', 1, Len(log)) = log
                  THEN SubSeq(log', Len(log) + 1, Len(log'))
                  ELSE log'
       IN  \A e \in Range(ran) :
             /\ (e.ev = "cmd" /\ e.obj \in AptCmds)
                  => MountsAndPolicyInPlace /\ MountsAndPolicyInPlace'
             /\ (e.ev = "cmd" /\ e.obj \in InstallCmds)
                  => ReposAndDiversionsInPlace /\ ReposAndDiversionsInPlace']_vars

C28_Witness ==
    /\ pc = "done"
    /\ Len(conf.ppas) = 2
    /\ conf.ppas[1].name # conf.ppas[2].name
    /\ pre.policy_rc = "absent"
    /\ pre.mounts = {}
    /\ \A c \in AptCmds : \E j \in 1..Len(log) : log[j].ev = "cmd" /\ log[j].obj = c

----------------------------------------------------------------------------
(* Repeated apply() on one target: repository files *)

\* one repository named a: kept or not, with or without key and pin, with
\* no credentials, both, or a username alone, with or without raw lines
RepoDecls ==
    {d \in PpaDecls : /\ d.name = "a"
                      /\ d.pin = d.fingerprint
                      /\ d.username = None => d.password = None}

RepoConfs ==
    {[EmptyConf EXCEPT !.ppas = <<d>>] : d \in RepoDecls}
      \cup {CoverConf, SnapConf(<<Sn("hello", "stable")>>, TRUE)}

InitRepo == InitWith("idle", SeqsUpTo(RepoConfs, MaxRuns) \ {<<>>}, {{}}, {"absent"}, 0)

SpecRepo == InitRepo /\ [][Next]_vars

\* the second of two successful apply() calls has returned
SecondRunDone == pc = "done" /\ Len(runs) = 2 /\ runs[1].ok

\* the per-repository files some declaration of the configuration writes
ConfWrites(c) == UNION {PpaWrites(c.ppas[j]) : j \in 1..Len(c.ppas)}

\* C22: after the same configuration is applied twice, both runs
\* succeeding, the sources, key, auth and pin files of every kept repository
\* have exactly the content they had after the first run
C22_RepeatedApplyIdempotent ==
    (SecondRunDone /\ runs[1].conf = runs[2].conf) =>
      \A j \in 1..Len(conf.ppas) : \A k \in PpaKinds :
        LET f == <<conf.ppas[j].name, k>>
        IN  conf.ppas[j].keep =>
              /\ f \in DOMAIN apt_text <=> f \in DOMAIN pre.apt_text
              /\ f \in DOMAIN apt_text => apt_text[f] = pre.apt_text[f]

\* C30: teardown of a non-kept repository deletes only files its own setup
\* wrote: a key, auth or pin file of that name that was on the target before
\* the run and is written by no declaration of the run is still there after it
C30_TeardownOnlyOwnFiles ==
    pc = "done" =>
      \A j \in 1..Len(conf.ppas) : \A k \in PpaKinds :
        LET f == <<conf.ppas[j].name, k>>
        IN  (~conf.ppas[j].keep /\ f \in pre.apt_files /\ f \notin ConfWrites(conf))
              => f \in apt_files

----------------------------------------------------------------------------
(* Repeated apply() on one target: runs that fail and runs that succeed *)

RerunConfs == {EmptyConf, CoverConf}

InitRerun == InitWith("idle", SeqsUpTo(RerunConfs, MaxRuns) \ {<<>>}, {{}}, {"absent"}, MaxFaults)

SpecRerun == InitRerun /\ [][Next]_vars

\* C29: on a target that carried no policy-rc.d at first, after any sequence
\* of apply() runs that succeed or fail, the file is absent once the most
\* recent run has completed successfully
C29_PolicyAbsentAfterSuccess ==
    (pc = "done" /\ runs # <<>> /\ runs[Len(runs)].ok) => policy_rc = "absent"

----------------------------------------------------------------------------
(* ImageCustomizer.main: the image handler around the core *)

\* the output image before main(): absent, or one that may be overwritten
Images == {[NoImage EXCEPT !.output = o, !.before = o] : o \in {"absent", "old"}}

\* a configuration without sections, one with a repository and a snap, and
\* a document that does not validate
ImageConfs ==
    {EmptyConf, CoverConf,
     [EmptyConf EXCEPT !.files = <<FileDecl(<<"opt">>, None, None, None)>>]}

imgvars == <<fsvars, idx, plan, conf, stack, exc, pre, dl, runs, peer, log>>

\* a command of the handler exits non-zero
ImageFault == faults > 0 /\ faults' = faults - 1

\* setup(): the input is converted or copied to the .modifying file, which is
\* loop-mounted on the mount point; resolv.conf is replaced
ImageSetup ==
    /\ pc = "image_setup"
    /\ image.phase = "none"
    /\ \/ /\ image' = [image EXCEPT !.phase = "core", !.mounted = TRUE, !.modifying = TRUE]
          /\ pc' = "idle"
          /\ faults' = faults
       \/ \E at \in {"convert", "mount", "resolv"}, partial \in BOOLEAN :
            /\ ImageFault
            /\ at = "convert" \/ partial
            /\ image' = [image EXCEPT !.phase = "setup_raised", !.modifying = partial,
                                      !.mounted = (at = "resolv")]
            /\ pc' = "image_failed"
    /\ UNCHANGED imgvars

\* chrootfs_entry_point(args) has raised: Context() rejected the document
\* or apply() failed
CoreRaised == image.phase = "core" /\ pc \in {"failed", "rejected"}

CoreReturned == image.phase = "core" /\ pc = "done"

\* "sudo umount <mount point>" with check=True: the mount point is busy
\* while a mount below it is left
UmountBusy == mounts # {}

\* main(): except Exception: _unmount_image(), then
\* _remove_existing_modified_image(), then raise RuntimeError
ImageExcept ==
    /\ CoreRaised
    /\ pc' = "image_failed"
    /\ \/ /\ ~UmountBusy
          /\ image' = [image EXCEPT !.phase = "raised", !.mounted = FALSE, !.modifying = FALSE]
          /\ faults' = faults
       \/ /\ UmountBusy
          /\ image' = [image EXCEPT !.phase = "cleanup_raised"]
          /\ faults' = faults
       \/ /\ ~UmountBusy
          /\ ImageFault
          /\ image' = [image EXCEPT !.phase = "cleanup_raised"]
    /\ UNCHANGED imgvars

\* create_final_image(): _restore_resolv_conf, _unmount_image,
\* _produce_final_image (the old output is removed before the copy)
ImageFinal ==
    /\ CoreReturned
    /\ \/ /\ ~UmountBusy
          /\ image' = [image EXCEPT !.phase = "final", !.mounted = FALSE, !.modifying = FALSE,
                                    !.output = "new"]
          /\ pc' = "image_done"
          /\ faults' = faults
       \/ /\ UmountBusy
          /\ image' = [image EXCEPT !.phase = "final_raised"]
          /\ pc' = "image_failed"
          /\ faults' = faults
       \/ \E at \in {"restore", "umount", "produce"} :
            /\ ~UmountBusy
            /\ ImageFault
            /\ image' = IF at = "produce"
                        THEN [image EXCEPT !.phase = "final_raised", !.mounted = FALSE,
                                           !.output = "absent"]
                        ELSE [image EXCEPT !.phase = "final_raised"]
            /\ pc' = "image_failed"
    /\ UNCHANGED imgvars

NextImage == ImageSetup \/ Next \/ ImageExcept \/ ImageFinal

InitImage ==
    /\ InitTarget({{}}, {"absent"}, {EmptySeed}, {EmptyTree})
    /\ InitCalls("image_setup", {<<c>> : c \in ImageConfs}, MaxFaults, Images)

SpecImage == InitImage /\ [][NextImage]_vars

\* C27: when the core has raised under main(), the handler has unmounted
\* the image and deleted the .modifying file by the time it re-raises, and
\* the output image is neither produced nor replaced
C27_FailureCleansUp ==
    image.phase \in {"raised", "cleanup_raised"} =>
      /\ ~image.mounted
      /\ ~image.modifying
      /\ image.output = image.before

----------------------------------------------------------------------------
(* _kernel_boot_without_initramfs: the fragment and the regeneration *)

\* a target where a file stands in the way of etc/default/grub.d
BlockedTree == TreeOf({FileOf(grub_cfg, "set default=0"), FileOf(<<"etc", "default">>, "x")})

BootTrees == KernelTrees \cup {EmptyTree, BlockedTree}

InitBoot ==
    /\ InitTarget({{}}, {"absent"}, {EmptySeed}, BootTrees)
    /\ InitControl("idle", {<<c>> : c \in KernelConfs}, MaxFaults)

SpecBoot == InitBoot /\ [][Next]_vars

\* what blkid printed in this run, if it ran
BlkidPrinted(partuuid) == Has(Ev("stdout", partuuid, 5))

RanCmd(c) == \E j \in 1..Len(log) : log[j].ev = "cmd" /\ log[j].obj = c

RaisedAt(step, k) == Has(Ev("raise", step, k))

\* the kernel step is over, by returning or by raising
KernelStepOver == conf.kernel /\ (pc = "debs" \/ \E k \in 1..8 : RaisedAt("kernel", k))

\* C31: when a partition identifier is found, update-grub runs only once the
\* fragment's text is on disk, so that the grub.cfg it generates names the
\* root by that PARTUUID
C31_RegenerateAfterFragment ==
    (KernelInstalled /\ RanCmd("update_grub")) =>
      /\ DataOf(tree, force_partuuid_cfg) = ForcePartuuidText("0a1b")
      /\ DataOf(tree, grub_cfg) = "linux /vmlinuz root=PARTUUID=0a1b ro"

----------------------------------------------------------------------------
(* Base resolution for configured snapd and core snaps *)

ExemptNames == {"snapd", "core", "core22"}

\* snap sections that declare one of snapd, core, core22 alone
BaseConfs ==
    {SnapConf(<<Sn(n, "stable")>>, TRUE) : n \in ExemptNames} \cup {CoverConf, EmptyConf}

InitBases == InitWith("idle", {<<c>> : c \in BaseConfs}, {{}}, {"absent"}, 0)

SpecBases == InitBases /\ [][Next]_vars

\* C33: base resolution for a configured snap named snapd, core or core<NN>
\* downloads nothing and raises no error, whatever its metadata says
C33_ExemptFromBaseResolution ==
    (pc \in {"done", "failed"} /\ Len(conf.snap.snaps) = 1
       /\ conf.snap.snaps[1].name \in ExemptNames) =>
      /\ ~Has(Ev("raise", "snaps", 3))
      /\ \A j \in 1..Len(log) : log[j].ev # "download_base"

----------------------------------------------------------------------------
(* Unmount attempts on every exit path of apply() *)

\* umount of the i-th target was run, successfully or not
UmountAttempts(i) == Count(Ev("cmd", "umount", i)) + Count(Ev("raise", "umount", i))

\* C34: when apply() has returned or raised, every mount the mount guard
\* performed has had exactly one umount attempt, and a target it did not
\* mount has had none: after a run-phase failure, a failing setup of a later
\* guard, a failing k-th mount, and when the umount of another target fails
C34_EveryMountOneUmount ==
    pc \in {"done", "failed"} =>
      \A i \in 1..NMounts :
        /\ Count(Ev("cmd", "mount", i)) <= 1
        /\ UmountAttempts(i) = Count(Ev("cmd", "mount", i))

C34_Witness ==
    /\ pc = "failed"
    /\ \E i \in 2..(NMounts - 1) :
         /\ Has(Ev("raise", "umount", i))
         /\ \A j \in 1..NMounts :
              Has(Ev("cmd", "mount", j)) /\ (j # i => Has(Ev("cmd", "umount", j)))

----------------------------------------------------------------------------
(* _cmd_run: the temporary script *)

CmdSteps == {"cmds_pre", "cmds_post"}

\* C35: after _cmd_run has returned or raised, the chimg_* script it created
\* in the target root no longer exists, and the command was executed at most
\* once
C35_NoScriptLeftBehind ==
    /\ \A q \in 1..Len(log) : log[q].ev = "script" => <<log[q].obj>> \notin FilePaths(tree)
    /\ \A n \in ScriptNames : <<n>> \in FilePaths(tree) => <<n>> \in FilePaths(pre.tree)
    /\ \A step \in CmdSteps : \A j \in 1..2 :
         /\ Count(Ev("exec", step, j)) <= 1
         /\ Count(Ev("exec", step, j))
              <= Cardinality({q \in 1..Len(log) : log[q].ev = "script" /\ log[q].i = j})

C35_Witness ==
    /\ pc = "failed"
    /\ Has(Ev("script", "chimg_a1b2", 1))
    /\ Has(Ev("exec", "cmds_post", 1))
    /\ Has(Ev("raise", "cmds_post", 1))
    /\ Count(Ev("cmd", "cmd_run", 1)) = 1

----------------------------------------------------------------------------
(* Two apply() calls that overlap on one target *)

\* Nothing in Chroot.apply, _mount_fs or _policy_rc_runlevel_ops takes a lock
\* on the target. The second apply() runs in another process; of it the
\* mount guard, the policy guard, one package-install step and the unwinding
\* of the two guards are followed, interleaved with the steps of the first.
peervars ==
    <<apt_files, apt_text, diverted, detect_virt, seed, tree, pc, idx, plan, conf, stack,
      exc, faults, pre, dl, runs, image, log>>

PeerIdle == [pc |-> "idle", idx |-> 0, stack |-> <<>>]

PeerTop == peer.stack[StackTop(peer.stack)]

PeerPop == [j \in 1..(Len(peer.stack) - 1) |->
              IF j < StackTop(peer.stack) THEN peer.stack[j] ELSE peer.stack[j + 1]]

\* apply(): "with self._mount(), ..." begins
PeerStart ==
    /\ peer.pc = "idle"
    /\ peer' = [pc |-> "mount", idx |-> 1, stack |-> <<>>]
    /\ UNCHANGED <<mounts, policy_rc, peervars>>

\* _mount: _mount_fs is entered for the rows of mounts_fs from the i-th on
RECURSIVE mount_rows(_, _)
mount_rows(m, i) ==
    IF i > NMounts THEN [mounts |-> m, guards |-> <<>>]
    ELSE LET r == MountSetup(m, mounts_fs[i])
             rest == mount_rows(r.mounts, i + 1)
         IN  [mounts |-> rest.mounts,
              guards |-> <<Guard("mount", i, r.mount_done)>> \o rest.guards]

\* the ExitStack of _mount unwinds: the finally clauses, last entered first
RECURSIVE umount_rows(_, _)
umount_rows(m, guards) ==
    IF guards = <<>> THEN m
    ELSE LET g == guards[StackTop(guards)]
         IN  umount_rows(MountTeardown(m, mounts_fs[g.i], g.acted),
                         SubSeq(guards, 1, Len(guards) - 1))

PeerMountEnter ==
    /\ peer.pc = "mount"
    /\ LET r == mount_rows(mounts, 1)
       IN  /\ mounts' = r.mounts
           /\ peer' = [pc |-> "policy", idx |-> 0, stack |-> r.guards]
    /\ UNCHANGED <<policy_rc, peervars>>

PeerPolicyEnter ==
    /\ peer.pc = "policy"
    /\ LET r == PolicySetup(policy_rc)
       IN  /\ policy_rc' = r.file
           /\ peer' = [pc |-> "install", idx |-> 0,
                       stack |-> Append(peer.stack, Guard("policy", 0, r.written))]
    /\ UNCHANGED <<mounts, peervars>>

\* _debs_install: apt-get install runs inside the target
PeerInstall ==
    /\ peer.pc = "install"
    /\ peer' = [peer EXCEPT !.pc = "teardown"]
    /\ UNCHANGED <<mounts, policy_rc, peervars>>

PeerPolicyExit ==
    /\ peer.pc = "teardown"
    /\ peer.stack # <<>>
    /\ PeerTop.kind = "policy"
    /\ policy_rc' = PolicyTeardown(policy_rc, PeerTop.acted)
    /\ peer' = [peer EXCEPT !.stack = PeerPop]
    /\ UNCHANGED <<mounts, peervars>>

PeerMountExit ==
    /\ peer.pc = "teardown"
    /\ peer.stack # <<>>
    /\ PeerTop.kind = "mount"
    /\ mounts' = umount_rows(mounts, peer.stack)
    /\ peer' = [peer EXCEPT !.stack = <<>>]
    /\ UNCHANGED <<policy_rc, peervars>>

PeerReturn ==
    /\ peer.pc = "teardown"
    /\ peer.stack = <<>>
    /\ peer' = [peer EXCEPT !.pc = "done"]
    /\ UNCHANGED <<mounts, policy_rc, peervars>>

NextOverlap ==
    \/ Next
    \/ PeerStart
    \/ PeerMountEnter
    \/ PeerPolicyEnter
    \/ PeerInstall
    \/ PeerPolicyExit
    \/ PeerMountExit
    \/ PeerReturn

OverlapConfs == {[EmptyConf EXCEPT !.debs = <<Deb("vim", None)>>], CoverConf}

InitOverlap ==
    /\ InitTarget({{}}, {"absent"}, {EmptySeed}, {EmptyTree})
    /\ InitApply("idle", {<<c>> : c \in OverlapConfs}, 0, {NoImage})
    /\ peer = PeerIdle

SpecOverlap == InitOverlap /\ [][NextOverlap]_vars

\* a package-install step of either run is about to run its command
InstallAhead == (pc = "debs" /\ conf.debs # <<>>) \/ peer.pc = "install"

\* C36: when two apply() runs overlap on one target, every package-install
\* step of each run executes with the nine mounts and policy-rc.d in place:
\* the teardown of one run never takes away what the other still needs
C36_InstallKeepsMountsAndPolicy == InstallAhead => MountsAndPolicyInPlace

----------------------------------------------------------------------------
(* snap_seed_parse.main: the snap lines of the image manifest *)

\* snap names of a seed, in the order of str comparison
NameOrder == <<"core20", "pc", "snapd">>

ModelChannels == {"20/stable", "latest/stable"}

ModelRevisions == {"7", "12"}

\* the snap-id the snap-declaration assertion of a snap carries
SnapIds == [core20 |-> "id-core20", pc |-> "id-pc", snapd |-> "id-snapd"]

\* list.sort() on names
NameRank(n) == IndexOf(NameOrder, n)

InsertName(s, x) ==
    LET k == Cardinality({i \in 1..Len(s) : NameRank(s[i]) <= NameRank(x)})
    IN  SubSeq(s, 1, k) \o <<x>> \o SubSeq(s, k + 1, Len(s))

RECURSIVE sort_names(_)
sort_names(s) ==
    IF s = <<>> THEN <<>>
    ELSE InsertName(sort_names(SubSeq(s, 1, Len(s) - 1)), s[Len(s)])

\* f"{LINE_PREFIX}{name}\t{channel}\t{rev}\n"
ManifestLine(name, channel, rev) ==
    "snap:" \o name \o "\t" \o channel \o "\t" \o rev \o "\n"

\* a dict filled in a loop over assertions: the last entry of a key wins
DictOf(entries) ==
    [k \in {e.key : e \in Range(entries)} |->
       entries[CHOOSE i \in 1..Len(entries) :
                 /\ entries[i].key = k
                 /\ \A j \in (i + 1)..Len(entries) : entries[j].key # k].value]

channel_of_own_snap(snaps, snap_name) ==
    snaps[CHOOSE i \in 1..Len(snaps) : snaps[i].name = snap_name].channel

\* make_manifest_from_system, the write loop: "channel = snap[...]" reads
\* the variable of the loop over the snaps of the model, which has ended
channel_of_loop_variable(snaps, snap_name) == snaps[Len(snaps)].channel

\* make_manifest_from_system: snaps are the entries of the model assertion,
\* decls and revs the snap-declaration and snap-revision assertions; gives
\* the lines written, and whether a lookup raised KeyError
make_manifest_from_system(snaps, decls, revs) ==
    LET snap_names == sort_names([i \in 1..Len(snaps) |-> snaps[i].name])
        snap_name_to_id == DictOf([i \in 1..Len(decls) |->
                                     [key |-> decls[i].name, value |-> decls[i].id]])
        snap_id_to_rev == DictOf([i \in 1..Len(revs) |->
                                    [key |-> revs[i].id, value |-> revs[i].rev]])
        Known(n) == /\ n \in DOMAIN snap_name_to_id
                    /\ snap_name_to_id[n] \in DOMAIN snap_id_to_rev
        good == IF \A i \in 1..Len(snap_names) : Known(snap_names[i])
                THEN Len(snap_names)
                ELSE (CHOOSE i \in 1..Len(snap_names) :
                        /\ ~Known(snap_names[i])
                        /\ \A j \in 1..(i - 1) : Known(snap_names[j])) - 1
    IN  [lines |-> [i \in 1..good |->
                      ManifestLine(snap_names[i],
                                   channel_of_loop_variable(snaps, snap_names[i]),
                                   snap_id_to_rev[snap_name_to_id[snap_names[i]]])],
         raised |-> good < Len(snap_names)]

\* make_manifest_from_seed_yaml: the file of an item is <name>_<rev>.snap,
\* held as [name, rev]; what follows the last "_", digits only, is rev
make_manifest_from_seed_yaml(items) ==
    [lines |-> [i \in 1..Len(items) |->
                  ManifestLine(items[i].name, items[i].channel, items[i].file.rev)],
     raised |-> FALSE]

\* the model assertions a seed system can carry: up to MaxModelSnaps snaps,
\* each named once
ModelSnapLists ==
    {l \in SeqsUpTo([name : Range(NameOrder), channel : ModelChannels], MaxModelSnaps) :
       \A i, j \in 1..Len(l) : l[i].name = l[j].name => i = j}

\* main(chroot_path, output_file): seed.yaml if there is one, else the
\* system directory look_for_uc20_model finds, else an exception; the
\* lines are appended to the output file
SnapSeedParse ==
    /\ pc = "seed_parse"
    /\ \E route \in {"seed_yaml", "system", "none"},
          snaps \in ModelSnapLists,
          rev_of \in [Range(NameOrder) -> ModelRevisions],
          missing \in SUBSET {"snapd"},
          before \in {<<>>, <<ManifestLine("old", "stable", "1")>>} :
         LET decls == [i \in 1..Len(NameOrder) |->
                         [name |-> NameOrder[i], id |-> SnapIds[NameOrder[i]]]]
             revs == SelectSeq([i \in 1..Len(NameOrder) |->
                                  [name |-> NameOrder[i], id |-> SnapIds[NameOrder[i]],
                                   rev |-> rev_of[NameOrder[i]]]],
                               LAMBDA r : r.name \notin missing)
             items == [i \in 1..Len(snaps) |->
                         [name |-> snaps[i].name, channel |-> snaps[i].channel,
                          file |-> [name |-> snaps[i].name, rev |-> rev_of[snaps[i].name]]]]
             r == CASE route = "seed_yaml" -> make_manifest_from_seed_yaml(items)
                    [] route = "system" -> make_manifest_from_system(snaps, decls, revs)
                    [] OTHER -> [lines |-> <<>>, raised |-> TRUE]
         IN  /\ route = "none" => snaps = <<>> /\ missing = {} /\ before = <<>>
             /\ route = "seed_yaml" => missing = {}
             /\ \* the assertions of a snap the model does not name: one case
                \A n \in Range(NameOrder) :
                  (\A i \in 1..Len(snaps) : snaps[i].name # n) => rev_of[n] = "7"
             /\ dl' = [route |-> route, snaps |-> snaps, revs |-> revs, before |-> before,
                       output |-> before \o r.lines, raised |-> r.raised]
    /\ pc' = "returned"
    /\ UNCHANGED <<fsvars, idx, plan, conf, stack, exc, faults, pre, runs, image, peer, log>>

NextSeedParse == SnapSeedParse

InitSeedParse == InitWith("seed_parse", {<<>>}, {{}}, {"absent"}, 0)

SpecSeedParse == InitSeedParse /\ [][NextSeedParse]_vars

\* the lines the manifest should gain from a system: one per snap of the
\* model, by name, each with its own channel and its own revision
OwnLines(snaps, revs) ==
    LET names == sort_names([i \in 1..Len(snaps) |-> snaps[i].name])
    IN  [i \in 1..Len(names) |->
           ManifestLine(names[i], channel_of_own_snap(snaps, names[i]),
                        (CHOOSE r \in Range(revs) : r.name = names[i]).rev)]

\* C37: from a uc20-style system directory snap_seed_parse writes exactly
\* one line per snap named in the model assertion, in sorted name order,
\* each with that snap's own default-channel and the revision of that
\* snap's own snap-revision assertion
C37_SystemManifestLines ==
    (pc = "returned" /\ dl.route = "system" /\ ~dl.raised) =>
      dl.output = dl.before \o OwnLines(dl.snaps, dl.revs)

====
